---- MODULE Spec2Model ----
(***************************************************************************)
(* A model of pysyphe: the actions pipeline (pysyphe/actions.py) with its  *)
(* reversible list (pysyphe/data_structs.py), and the two phase commit     *)
(* transactions manager (pysyphe/transactions.py).                         *)
(*                                                                         *)
(* Every operation of the library is one action of the model; the loops of *)
(* an operation are RECURSIVE operators that walk the same iterator the    *)
(* code walks.  What the user's callables do (return or raise) is an input *)
(* of the operation, chosen with \E.                                       *)
(***************************************************************************)
EXTENDS Integers, Sequences, FiniteSets, TLC

\* ------------------------------------------------------------------ bounds
\* Number of actions that can be appended to the pipeline.
MaxActions == 3
\* Length of the log given to simulate_until.
MaxLog == 3
\* Number of handlers that can be added to the transactions manager.
MaxHandlers == 2
\* Number of operations called on the manager after one begin.
MaxOps == 2
\* Number of context managers that the user adds to an action.
MaxHooks == 4
\* Number of keys that the dicts hold together.
MaxItems == 3
\* Number of context managers added to a template and its copies.
MaxAdded == 1

VARIABLES
    actions_pipeline,  \* ActionsPipeline._actions_pipeline, a ReversibleList
    actions_list,      \* ActionsPipeline._actions_list
    started,           \* history: do, undo or simulate_until was called once
    last,              \* history: the last operation on the pipeline
    prev,              \* history: the operation before the last one
    trm,               \* the TransactionsManager
    pc,                \* where the user of the manager is: outside of a
                       \* begin scope, in its body, or in its body with an
                       \* exception that was just raised
    pending,           \* the exception that was just raised in the body
    serial,            \* the number of exceptions raised since begin
    nops,              \* the number of operations called since begin
    tlast,             \* history: the last operation on the manager
    act,               \* an Action, StatefullAction or UnitAction
    alast,             \* history: the last operation on the action
    adone,             \* history: what has happened to a UnitAction
    dicts,             \* the _dict of every ReferencesDict
    written,           \* history: what was written last at every key
    rlast,             \* history: the kind of the last write to a dict
    objs,              \* a template action and its prepared copies
    cells,             \* the _context_managers of these actions
    slast,             \* history: the last operation on these actions
    others,            \* the ReversibleLists made by copy: the
                       \* _actions_pipeline of the copy of the pipeline
    info_streamer,     \* the info_streamer of a pipeline and of its actions
    ilast              \* history: the last operation on the info streamers

pvars == <<actions_pipeline, actions_list, started, last, prev>>

tvars == <<trm, pc, pending, serial, nops, tlast>>

avars == <<act, alast, adone>>

rvars == <<dicts, written, rlast>>

svars == <<objs, cells, slast>>

cvars == <<others>>

ivars == <<info_streamer, ilast>>

vars == <<actions_pipeline, actions_list, started, last, prev,
          trm, pc, pending, serial, nops, tlast, act, alast, adone,
          dicts, written, rlast, objs, cells, slast, others,
          info_streamer, ilast>>

\* ------------------------------------------------------------ sequences
RECURSIVE Reverse(_)
Reverse(s) == IF s = <<>> THEN <<>> ELSE Append(Reverse(Tail(s)), Head(s))

Range(s) == {s[i] : i \in DOMAIN s}

\* s[from:] of python, from counted from 0; a negative from counts from
\* the end of s.
SliceFrom(s, from) ==
    LET f == IF from >= 0 THEN from
             ELSE IF Len(s) + from >= 0 THEN Len(s) + from ELSE 0
    IN IF f >= Len(s) THEN <<>> ELSE SubSeq(s, f + 1, Len(s))

\* ------------------------------------------------------- ReversibleList
\* A python list iterator: it walks `seq` (or, when live, the list object
\* of the ReversibleList itself, so that it sees later appends) from index
\* idx, and is closed for ever once it has raised StopIteration.
ListIterator(live, seq, idx) ==
    [live |-> live, seq |-> seq, idx |-> idx, open |-> TRUE]

ReversibleList_init ==
    [list |-> <<>>, position |-> 0, continuous |-> FALSE,
     it |-> ListIterator(TRUE, <<>>, 0)]

ReversibleList_append(rl, elem) ==
    [rl EXCEPT !.list = Append(@, elem)]

\* Mutant: the position is not mapped to the reversed list.
ReversibleList_reverse_same_position(rl) ==
    LET l == Reverse(rl.list)
        p == rl.position
    IN [rl EXCEPT !.list = l,
                  !.position = p,
                  !.it = ListIterator(FALSE, SliceFrom(l, p), 0)]

ReversibleList_reverse(rl) ==
    LET l == Reverse(rl.list)
        p == Len(l) - rl.position
    IN [rl EXCEPT !.list = l,
                  !.position = p,
                  !.it = ListIterator(FALSE, SliceFrom(l, p), 0)]

\* next(self._list_iterator): [rl, stop, elem]
ListIterator_next(rl) ==
    LET s == IF rl.it.live THEN rl.list ELSE rl.it.seq IN
    IF rl.it.open /\ rl.it.idx < Len(s)
    THEN [rl |-> [rl EXCEPT !.it.idx = @ + 1], stop |-> FALSE,
          elem |-> s[rl.it.idx + 1]]
    ELSE [rl |-> [rl EXCEPT !.it.open = FALSE], stop |-> TRUE, elem |-> 0]

ReversibleList_next(rl) ==
    LET n == ListIterator_next(rl) IN
    IF ~n.stop
    THEN [n EXCEPT !.rl.position = @ + 1]
    ELSE IF ~rl.continuous
         THEN n
         ELSE LET m == ListIterator_next(ReversibleList_reverse(n.rl)) IN
              IF m.stop THEN m ELSE [m EXCEPT !.rl.position = @ + 1]

\* ReversibleList.__copy__: ReversibleList(self._list, continuous) copies
\* the list and starts a new iterator at the beginning of the copy; then
\* the position is copied.
ReversibleList_copy(rl) ==
    [list |-> rl.list, position |-> rl.position,
     continuous |-> rl.continuous, it |-> ListIterator(TRUE, <<>>, 0)]

\* --------------------------------------------------------------- actions
\* The actions of a pipeline are the objects 1, 2, ... in the order of
\* their appending.  Their names are pairwise distinct; "garbage" is a
\* name of no action.
ActionIds == 1..MaxActions

name(a) == <<"action", a>>

rollback_name(a) == <<"rollback", a>>

Names ==
    {name(a) : a \in ActionIds} \cup {rollback_name(a) : a \in ActionIds}
        \cup {<<"garbage", 0>>}

\* One invocation of a method of an action of the pipeline.
Call(m, a) == <<m, a>>

\* What an operation of the pipeline did: the cursor it leaves, whether it
\* raised (and what), the methods it invoked on the actions, in order.
Outcome(rl, exc, calls) == [rl |-> rl, exc |-> exc, calls |-> calls]

\* ------------------------------------------------------- ActionsPipeline
\* for action in self._actions_pipeline: action.do()
\* fails is the set of actions whose do raises when invoked.
RECURSIVE _action_fct_loop(_, _, _)
_action_fct_loop(rl, fails, calls) ==
    LET n == ReversibleList_next(rl) IN
    IF n.stop
    THEN Outcome(n.rl, "none", calls)
    ELSE IF n.elem \in fails
         THEN Outcome(n.rl, "Exception", Append(calls, Call("do", n.elem)))
         ELSE _action_fct_loop(n.rl, fails, Append(calls, Call("do", n.elem)))

\* Mutant: the cursor is not moved past the action whose do raised.
_action_fct_completed_only(rl, fails) ==
    LET o == _action_fct_loop(rl, fails, <<>>) IN
    IF o.exc = "none" THEN o
    ELSE Outcome([o.rl EXCEPT !.position = @ - 1], o.exc, o.calls)

_action_fct(rl, fails) == _action_fct_loop(rl, fails, <<>>)

\* The for loop of _rollback_fct, on the reversed list.
RECURSIVE _rollback_fct_loop(_, _, _)
_rollback_fct_loop(rl, fails, calls) ==
    LET n == ReversibleList_next(rl) IN
    IF n.stop
    THEN Outcome(n.rl, "none", calls)
    ELSE IF n.elem \in fails
         THEN Outcome(n.rl, "Exception", Append(calls, Call("undo", n.elem)))
         ELSE _rollback_fct_loop(n.rl, fails,
                                 Append(calls, Call("undo", n.elem)))

\* reverse; try: the loop; finally: reverse.
_rollback_fct(rl, fails) ==
    LET o == _rollback_fct_loop(ReversibleList_reverse(rl), fails, <<>>)
    IN Outcome(ReversibleList_reverse(o.rl), o.exc, o.calls)

\* Action.do and Action.undo of the pipeline itself: the pipeline has no
\* context manager of its own, so they run the function and re-raise.
ActionsPipeline_do(rl, fails) == _action_fct(rl, fails)

ActionsPipeline_undo(rl, fails) == _rollback_fct(rl, fails)

\* Mutant: on a name that is no action name, the cursor is left one action
\* too far.
RECURSIVE simulate_until_actions_no_step_back(_, _, _, _)
simulate_until_actions_no_step_back(rl, log, nb, calls) ==
    IF nb >= Len(log)
    THEN [o |-> Outcome(rl, "none", calls), nb |-> nb]
    ELSE LET n == ReversibleList_next(rl) IN
         IF n.stop \/ log[nb + 1] # name(n.elem)
         THEN [o |-> Outcome(n.rl, "none", calls), nb |-> nb]
         ELSE simulate_until_actions_no_step_back(
                  n.rl, log, nb + 1,
                  Append(calls, Call("simulate_action", n.elem)))

\* Mutant: zip(pipeline, actions_already_done); the next action is taken
\* before the log is seen to be exhausted.
RECURSIVE simulate_until_actions_pipeline_first(_, _, _, _)
simulate_until_actions_pipeline_first(rl, log, nb, calls) ==
    LET n == ReversibleList_next(rl) IN
    IF n.stop \/ nb >= Len(log)
    THEN [o |-> Outcome(n.rl, "none", calls), nb |-> nb]
    ELSE IF log[nb + 1] # name(n.elem)
         THEN LET b == ReversibleList_next(ReversibleList_reverse(n.rl))
              IN IF b.stop
                 THEN [o |-> Outcome(b.rl, "StopIteration", calls),
                       nb |-> nb]
                 ELSE [o |-> Outcome(ReversibleList_reverse(b.rl),
                                     "none", calls),
                       nb |-> nb]
         ELSE simulate_until_actions_pipeline_first(
                  n.rl, log, nb + 1,
                  Append(calls, Call("simulate_action", n.elem)))

\* The first loop of simulate_until: zip(actions_already_done, pipeline)
\* takes a log entry first and then the next action, so an exhausted log
\* leaves the cursor alone.  nb is nb_action_simulated.
\* Result: the outcome and nb.
RECURSIVE simulate_until_actions(_, _, _, _)
simulate_until_actions(rl, log, nb, calls) ==
    IF nb >= Len(log)
    THEN [o |-> Outcome(rl, "none", calls), nb |-> nb]
    ELSE LET n == ReversibleList_next(rl) IN
         IF n.stop
         THEN [o |-> Outcome(n.rl, "none", calls), nb |-> nb]
         ELSE IF log[nb + 1] # name(n.elem)
              THEN \* reverse(); next(); reverse(): go back one action.
                   LET b == ReversibleList_next(ReversibleList_reverse(n.rl))
                   IN IF b.stop
                      THEN [o |-> Outcome(b.rl, "StopIteration", calls),
                            nb |-> nb]
                      ELSE [o |-> Outcome(ReversibleList_reverse(b.rl),
                                          "none", calls),
                            nb |-> nb]
              ELSE simulate_until_actions(
                       n.rl, log, nb + 1,
                       Append(calls, Call("simulate_action", n.elem)))

\* The second loop, on the reversed list: rest is
\* actions_already_done[nb_action_simulated:], nb is nb_rollback_simulated.
RECURSIVE simulate_until_rollbacks(_, _, _, _)
simulate_until_rollbacks(rl, rest, nb, calls) ==
    IF nb >= Len(rest)
    THEN [o |-> Outcome(rl, "none", calls), nb |-> nb]
    ELSE LET n == ReversibleList_next(rl) IN
         IF n.stop
         THEN [o |-> Outcome(n.rl, "none", calls), nb |-> nb]
         ELSE IF rest[nb + 1] # rollback_name(n.elem)
              THEN [o |-> Outcome(n.rl, "ActionException", calls), nb |-> nb]
              ELSE simulate_until_rollbacks(
                       n.rl, rest, nb + 1,
                       Append(calls, Call("simulate_rollback", n.elem)))

\* Mutant: the entries left over after both loops are not looked at.
simulate_until_leftover_ignored(rl, log) ==
    LET a == simulate_until_actions(rl, log, 0, <<>>) IN
    IF a.o.exc # "none" \/ ~(a.nb < Len(log))
    THEN a.o
    ELSE LET r == simulate_until_rollbacks(
                      ReversibleList_reverse(a.o.rl),
                      SliceFrom(log, a.nb), 0, a.o.calls)
         IN IF r.o.exc # "none"
            THEN r.o
            ELSE Outcome(ReversibleList_reverse(r.o.rl), "none", r.o.calls)

\* Mutant: the list is left reversed after the second loop.
simulate_until_left_reversed(rl, log) ==
    LET a == simulate_until_actions(rl, log, 0, <<>>) IN
    IF a.o.exc # "none" \/ ~(a.nb < Len(log))
    THEN a.o
    ELSE LET r == simulate_until_rollbacks(
                      ReversibleList_reverse(a.o.rl),
                      SliceFrom(log, a.nb), 0, a.o.calls)
         IN IF r.o.exc # "none"
            THEN r.o
            ELSE IF a.nb + r.nb < Len(log)
                 THEN Outcome(r.o.rl, "ActionException", r.o.calls)
                 ELSE Outcome(r.o.rl, "none", r.o.calls)

\* Mutant: the second loop walks the reversed list from the last action,
\* wherever the first loop stopped.
simulate_until_rollbacks_from_last(rl, log) ==
    LET a == simulate_until_actions(rl, log, 0, <<>>) IN
    IF a.o.exc # "none" \/ ~(a.nb < Len(log))
    THEN a.o
    ELSE LET r == simulate_until_rollbacks(
                      ReversibleList_reverse(
                          [a.o.rl EXCEPT !.position = Len(a.o.rl.list)]),
                      SliceFrom(log, a.nb), 0, a.o.calls)
         IN IF r.o.exc # "none"
            THEN r.o
            ELSE IF a.nb + r.nb < Len(log)
                 THEN Outcome(ReversibleList_reverse(r.o.rl),
                              "ActionException", r.o.calls)
                 ELSE Outcome(ReversibleList_reverse(r.o.rl), "none",
                              r.o.calls)

simulate_until(rl, log) ==
    LET a == simulate_until_actions(rl, log, 0, <<>>) IN
    IF a.o.exc # "none" \/ ~(a.nb < Len(log))
    THEN a.o
    ELSE LET r == simulate_until_rollbacks(
                      ReversibleList_reverse(a.o.rl),
                      SliceFrom(log, a.nb), 0, a.o.calls)
         IN IF r.o.exc # "none"
            THEN r.o
            ELSE IF a.nb + r.nb < Len(log)
                 THEN Outcome(ReversibleList_reverse(r.o.rl),
                              "ActionException", r.o.calls)
                 ELSE Outcome(ReversibleList_reverse(r.o.rl), "none",
                              r.o.calls)

\* ActionsPipeline.append, for an action that has do, undo and
\* set_info_streamer.
ActionsPipeline_append(rl, action) == ReversibleList_append(rl, action)

\* The objects given to set_info_streamer: the InfoStreamer that an action
\* is built with, two other objects with a send_info method, and None,
\* which has none.
InfoStreamers == {"InfoStreamer", "streamer1", "streamer2", "None"}

\* hasattr(info_streamer, "send_info")
has_send_info(streamer) == streamer # "None"

\* A pipeline with no action, as built: every info_streamer is the
\* InfoStreamer of Action.__init__.
ActionsPipeline_init_info_streamer ==
    [pipeline |-> "InfoStreamer", actions |-> <<>>]

\* Action.set_info_streamer: the streamer that the action holds afterwards
\* and the exception raised.
Action_set_info_streamer(held, streamer) ==
    [streamer |-> streamer,
     exc |-> IF has_send_info(streamer) THEN "none" ELSE "ActionException"]

\* ActionsPipeline.set_info_streamer: Action.set_info_streamer on the
\* pipeline and then, unless it raised, on every action.
ActionsPipeline_set_info_streamer(is, streamer) ==
    LET own == Action_set_info_streamer(is.pipeline, streamer) IN
    IF own.exc # "none"
    THEN [is |-> [is EXCEPT !.pipeline = own.streamer], exc |-> own.exc]
    ELSE [is |-> [pipeline |-> own.streamer,
                  actions |-> [i \in DOMAIN is.actions |->
                                   Action_set_info_streamer(
                                       is.actions[i], streamer).streamer]],
          exc |-> "none"]

\* The end of ActionsPipeline.append: the action is in the lists, and then
\* gets the info_streamer of the pipeline.
ActionsPipeline_append_info_streamer(is, streamer) ==
    LET set == Action_set_info_streamer(streamer, is.pipeline) IN
    [is |-> [is EXCEPT !.actions = Append(@, set.streamer)],
     exc |-> set.exc]

\* ActionsPipeline.__copy__: the _actions_pipeline of the copy; its
\* _actions_list is a new list of the same actions.
ActionsPipeline_copy(rl) == ReversibleList_copy(rl)

\* ---------------------------------------------------------------- Action
\* A context manager of an action; the user's ones of a side are numbered
\* in the order of their registration on that side and carry the inner
\* they were registered with, the two others are the ones that
\* get_prepared_action installs.
Cm(side, i, inner) == <<"cm", side, i, inner>>

Checks == <<"_checks_state_items_for_rollback", "action", 0, TRUE>>

Enables == <<"_enables_rollback", "action", 0, TRUE>>

\* The exceptions: the ones of the user's callables, and the ones the
\* library or python raises.
NoException == <<"none", "">>

FctException == <<"Exception", "fct">>

EnterException == <<"Exception", "enter">>

ExitException == <<"Exception", "exit">>

MissingItems == <<"ActionException", "Missing items in state">>

UnboundRet == <<"UnboundLocalError", "ret">>

DidNotYield == <<"RuntimeError", "generator didn't yield">>

\* An action with its two functions defined.  class is the class of the
\* object; requires tells that the rollback was declared with a state item,
\* "item"; state is the set of the keys of _state; undo_hidden tells that
\* undo is the lambda that get_prepared_action of UnitAction installs.
Action_init(class, requires) ==
    [class |-> class,
     prepared |-> FALSE,
     requires |-> requires,
     context_managers |-> [action |-> <<>>, rollback |-> <<>>],
     state |-> {},
     undo_hidden |-> FALSE]

Sides == {"action", "rollback"}

\* Mutant: inner is ignored.
add_context_manager_outer(a, side, cm, inner) ==
    [a EXCEPT !.context_managers[side] = Append(@, cm)]

\* add_context_manager(action_side, context_manager, inner)
add_context_manager(a, side, cm, inner) ==
    [a EXCEPT !.context_managers[side] =
                  IF inner THEN <<cm>> \o @ ELSE Append(@, cm)]

\* StatefullAction.get_prepared_action, on the copy it returns.
StatefullAction_get_prepared_action(a) ==
    add_context_manager([a EXCEPT !.prepared = TRUE, !.state = {}],
                        "action", Checks, TRUE)

\* UnitAction.get_prepared_action, on the copy it returns.
UnitAction_get_prepared_action(a) ==
    add_context_manager(
        [StatefullAction_get_prepared_action(a) EXCEPT !.undo_hidden = TRUE],
        "action", Enables, TRUE)

get_prepared_action(a) ==
    IF a.class = "UnitAction"
    THEN UnitAction_get_prepared_action(a)
    ELSE StatefullAction_get_prepared_action(a)

\* What the user's callables do in one do() or undo(): the function
\* returns or raises, and (in do) writes the item of the rollback or not;
\* at most one context manager, cm, does something else than entering and
\* exiting: its enter raises ("enter"), its exit raises ("exit"), or its
\* exit catches the exception it sees ("catch").
ActionInput(fct, items, cm, fault) ==
    [fct |-> fct, items |-> items, cm |-> cm, fault |-> fault]

\* A do() or undo() that is running: the action, the exception in flight,
\* the events so far, the context managers entered and not yet exited.
ActionRun(a) ==
    [a |-> a, exc |-> NoException, events |-> <<>>, entered |-> <<>>]

Event(r, e) == [r EXCEPT !.events = Append(@, e)]

\* stack.enter_context(ctx) for the context managers cms[i], cms[i+1], ...
RECURSIVE enter_context(_, _, _, _)
enter_context(r, cms, i, in) ==
    IF i > Len(cms)
    THEN r
    ELSE IF in.cm = cms[i] /\ in.fault = "enter"
         THEN [Event(r, <<"enter raises", cms[i]>>)
                   EXCEPT !.exc = EnterException]
         ELSE enter_context(
                  [Event(r, <<"enter", cms[i]>>)
                       EXCEPT !.entered = Append(@, cms[i])],
                  cms, i + 1, in)

\* Mutant: the items of the rollback are not looked for.
_checks_state_items_for_rollback_unchecked(r) ==
    IF r.exc = NoException
    THEN r
    ELSE [r EXCEPT !.a.state = @ \cup {"action_failed"}]

\* The part of _checks_state_items_for_rollback after the yield.
_checks_state_items_for_rollback(r) ==
    IF r.exc = NoException /\ (~r.a.requires \/ "item" \in r.a.state)
    THEN r
    ELSE [r EXCEPT !.a.state = @ \cup {"action_failed"},
                   !.exc = IF @ = NoException THEN MissingItems ELSE @]

\* Mutant: undo is restored in a finally, whatever the function did.
_enables_rollback_always(r) == [r EXCEPT !.a.undo_hidden = FALSE]

\* The part of _enables_rollback after the yield.
_enables_rollback(r) ==
    IF r.exc = NoException THEN [r EXCEPT !.a.undo_hidden = FALSE] ELSE r

\* The __exit__ of one context manager, with the exception in flight.
exit_context(r, cm, in) ==
    Event(IF cm = Checks THEN _checks_state_items_for_rollback(r)
          ELSE IF cm = Enables THEN _enables_rollback(r)
          ELSE IF in.cm = cm /\ in.fault = "exit"
               THEN [r EXCEPT !.exc = ExitException]
          ELSE IF in.cm = cm /\ in.fault = "catch"
               THEN [r EXCEPT !.exc = NoException]
          ELSE r,
          <<"exit", cm>>)

\* Mutant: an exit that raises ends the exits.
RECURSIVE ExitStack_exit_until_raise(_, _)
ExitStack_exit_until_raise(r, in) ==
    IF r.entered = <<>> \/ r.exc = ExitException
    THEN r
    ELSE ExitStack_exit_until_raise(
             exit_context(
                 [r EXCEPT !.entered = SubSeq(@, 1, Len(@) - 1)],
                 r.entered[Len(r.entered)], in),
             in)

\* ExitStack.__exit__: the context managers entered are exited, the last
\* entered first.
RECURSIVE ExitStack_exit(_, _)
ExitStack_exit(r, in) ==
    IF r.entered = <<>>
    THEN r
    ELSE ExitStack_exit(
             exit_context(
                 [r EXCEPT !.entered = SubSeq(@, 1, Len(@) - 1)],
                 r.entered[Len(r.entered)], in),
             in)

\* The function of the side: _action_fct() or _rollback_fct().
call_fct(r, side, in) ==
    IF in.fct = "raise"
    THEN [Event(r, <<"call", side>>) EXCEPT !.exc = FctException]
    ELSE [Event(r, <<"call", side>>)
              EXCEPT !.a.state = IF side = "action" /\ in.items /\ r.a.prepared
                                 THEN @ \cup {"item"} ELSE @]

\* with nested(*ctx_managers): ret = fct().  An exception of an enter that
\* is caught leaves a generator that did not yield.
nested(r, side, in) ==
    LET entered(e) ==
            IF e.exc = NoException
            THEN ExitStack_exit(call_fct(e, side, in), in)
            ELSE LET caught(x) ==
                         IF x.exc = NoException
                         THEN [x EXCEPT !.exc = DidNotYield]
                         ELSE x
                 IN caught(ExitStack_exit(e, in))
    IN entered(enter_context(r, Reverse(r.a.context_managers[side]), 1, in))

\* The body of Action.do and Action.undo: notify, the with statement,
\* notify and return ret, or notify and raise.  ret is not bound when the
\* function was not called or raised.
Action_run(a, side, in) ==
    LET returned(x) ==
            IF x.exc # NoException
            THEN Event(x, <<"notify", side, "end", x.exc>>)
            ELSE IF <<"call", side>> \in Range(x.events) /\ in.fct = "ok"
                 THEN Event(x, <<"notify", side, "end", NoException>>)
                 ELSE Event(Event([x EXCEPT !.exc = UnboundRet],
                                  <<"notify", side, "end", NoException>>),
                            <<"notify", side, "end", UnboundRet>>)
    IN returned(nested(Event(ActionRun(a), <<"notify", side, "begin">>),
                       side, in))

Action_do(a, in) == Action_run(a, "action", in)

\* undo is Action.undo, or the lambda of a prepared UnitAction.
Action_undo(a, in) ==
    IF a.undo_hidden THEN ActionRun(a) ELSE Action_run(a, "rollback", in)

\* A UnitAction that simulates as a StatefullAction does.
Action_simulate_state_only(a, side, keys) ==
    IF a.class = "Action"
    THEN ActionRun(a)
    ELSE Event(ActionRun([a EXCEPT !.state = @ \cup keys]),
               <<"send_info", side, "simul">>)

\* simulate(action_side, after_state): keys is the set of the keys of
\* after_state.  Action.simulate does nothing.
Action_simulate(a, side, keys) ==
    IF a.class = "Action"
    THEN ActionRun(a)
    ELSE Event(ActionRun([a EXCEPT !.undo_hidden =
                                       IF a.class = "UnitAction"
                                          /\ side = "action"
                                       THEN FALSE ELSE @,
                                   !.state = @ \cup keys]),
               <<"send_info", side, "simul">>)

\* --------------------------------------------------- TransactionsManager
\* The handlers of the manager are 1, 2, ... in the order of their adding;
\* 0 is the mutex handler.  An exception is the method and the handler that
\* raised it and the number it got when raised (two exceptions raised by
\* the same method are two objects); traces is the list carried by a
\* WeAreDoomedException, one entry for each exception encountered.
Mutex == 0

Exc(m, h, n) == [by |-> <<m, h>>, serial |-> n, traces |-> <<>>]

NoExc == Exc("none", 0, 0)

\* One invocation of a method of a handler, with what it did: "ok",
\* "raise", or the value it returned.
TCall(m, h, r) == <<m, h, r>>

TransactionsManager_init ==
    [handlers |-> <<>>,             \* _transaction_handlers: can_prepare_commit() of each
     mutex |-> "default",           \* _mutex_handler: TransactionHandler() or one that was set
     begun |-> FALSE,
     already_rollbacked |-> FALSE,
     exceptions_encountered |-> <<>>]

\* A method of the manager that is running: the manager, the number of the
\* next exception, the invocations made so far, the exception it raises.
Run(t, n) == [t |-> t, serial |-> n, calls |-> <<>>, exc |-> NoExc]

Invoke(r, m, h, res) == [r EXCEPT !.calls = Append(@, TCall(m, h, res))]

Raise(r, m, h) ==
    [r EXCEPT !.exc = Exc(m, h, r.serial), !.serial = @ + 1]

Raised(r) == r.exc # NoExc

\* Mutant: the exception is added even when it is the last one added.
_add_exception_encoutered_always(t, e) ==
    [t EXCEPT !.exceptions_encountered = Append(@, e)]

_add_exception_encoutered(t, e) ==
    IF t.exceptions_encountered = <<>>
       \/ t.exceptions_encountered[Len(t.exceptions_encountered)] # e
    THEN [t EXCEPT !.exceptions_encountered = Append(@, e)]
    ELSE t

\* The body of the loops of rollback, for the handler h: its rollback is
\* invoked and, when it raises, the exception is appended to
\* exceptions_encountered and becomes last_exc, which is r.exc.
rollback_one(r, h, fails) ==
    LET except(x) == [x EXCEPT !.t.exceptions_encountered = Append(@, x.exc)]
    IN IF h \in fails
       THEN except(Raise(Invoke(r, "rollback", h, "raise"), "rollback", h))
       ELSE Invoke(r, "rollback", h, "ok")

\* The loop of rollback over the handlers i, i+1, ...
RECURSIVE rollback_handlers(_, _, _)
rollback_handlers(r, i, fails) ==
    IF i > Len(r.t.handlers)
    THEN r
    ELSE rollback_handlers(rollback_one(r, i, fails), i + 1, fails)

\* The loop of rollback, ended by the first rollback that raises.
RECURSIVE rollback_handlers_stop(_, _, _)
rollback_handlers_stop(r, i, fails) ==
    IF i > Len(r.t.handlers) \/ Raised(r)
    THEN r
    ELSE rollback_handlers_stop(rollback_one(r, i, fails), i + 1, fails)

\* Mutant: the first rollback that raises ends rollback().
TransactionsManager_rollback_stop(r, fails) ==
    LET mutex(a) == IF Raised(a) THEN a ELSE rollback_one(a, Mutex, fails)
    IN IF ~r.t.begun
       THEN Raise(r, "TransactionException", Mutex)
       ELSE mutex(rollback_handlers_stop(
                      [r EXCEPT !.t.already_rollbacked = TRUE, !.exc = NoExc],
                      1, fails))

\* rollback(): the rollback of the handlers in fails raises.
TransactionsManager_rollback(r, fails) ==
    IF ~r.t.begun
    THEN Raise(r, "TransactionException", Mutex)
    ELSE rollback_one(
             rollback_handlers(
                 [r EXCEPT !.t.already_rollbacked = TRUE, !.exc = NoExc],
                 1, fails),
             Mutex, fails)

\* The loop of a method m that stops at the first handler that raises, over
\* the handlers of the list hs from its i-th.
RECURSIVE each_handler(_, _, _, _, _)
each_handler(r, m, hs, i, fails) ==
    IF i > Len(hs)
    THEN r
    ELSE IF hs[i] \in fails
         THEN Raise(Invoke(r, m, hs[i], "raise"), m, hs[i])
         ELSE each_handler(Invoke(r, m, hs[i], "ok"), m, hs, i + 1, fails)

\* The loop of m over hs, unless an exception was raised before it.
then_each_handler(r, m, hs, fails) ==
    IF Raised(r) THEN r ELSE each_handler(r, m, hs, 1, fails)

AllHandlers(t) == [i \in 1..Len(t.handlers) |-> i]

\* Mutant: execute() does not look at _begun.
TransactionsManager_execute_unguarded(r, fails) ==
    each_handler(r, "execute", AllHandlers(r.t), 1, fails)

\* execute(): the execute of the handlers in fails raises.
TransactionsManager_execute(r, fails) ==
    IF ~r.t.begun
    THEN Raise(r, "TransactionException", Mutex)
    ELSE each_handler(r, "execute", AllHandlers(r.t), 1, fails)

\* The manager at the first line of the try of begin.
begin_reset(r) ==
    [r EXCEPT !.t.already_rollbacked = FALSE,
              !.t.exceptions_encountered = <<>>,
              !.t.begun = TRUE]

\* Mutant: the mutex handler is begun after the other handlers.
begin_enter_mutex_last(r, fails) ==
    then_each_handler(
        each_handler(begin_reset(r), "begin", AllHandlers(r.t), 1, fails),
        "begin", <<Mutex>>, fails)

\* Mutant: the handlers are begun after a mutex handler whose begin raised.
begin_enter_after_raise(r, fails) ==
    each_handler(
        each_handler(begin_reset(r), "begin", <<Mutex>>, 1, fails),
        "begin", AllHandlers(r.t), 1, fails)

\* The lines of begin before the yield: the begin of the handlers in fails
\* raises.
begin_enter(r, fails) ==
    then_each_handler(
        each_handler(begin_reset(r), "begin", <<Mutex>>, 1, fails),
        "begin", AllHandlers(r.t), fails)

Doomed(r, msg) ==
    [r EXCEPT !.exc = [by |-> <<"WeAreDoomedException", msg>>,
                       serial |-> r.serial,
                       traces |-> r.t.exceptions_encountered],
              !.serial = @ + 1]

\* The exception e is added to exceptions_encountered of the run r.
added(r, e) == [r EXCEPT !.t = _add_exception_encoutered(@, e)]

\* Mutant: the except clause rollbacks whatever was done before.
begin_except_rollback_again(r, e, fails) ==
    LET rollbacked(b) ==
            IF Raised(b) \/ r.t.already_rollbacked
            THEN Doomed(added(b, b.exc), "Transactions rollbacking failed.")
            ELSE [b EXCEPT !.exc = e]
    IN rollbacked(TransactionsManager_rollback(added(r, e), fails))

\* Mutant: a failed scope is always doomed.
begin_except_always_doomed(r, e, fails) ==
    LET rollbacked(b) ==
            Doomed(IF Raised(b) THEN added(b, b.exc) ELSE b,
                   "Transactions rollbacking failed.")
        except(a) ==
            IF a.t.already_rollbacked
            THEN Doomed(a, "Transactions already rollbacked")
            ELSE rollbacked(TransactionsManager_rollback(a, fails))
    IN except(added(r, e))

\* Mutant: the except clause raises the exception again and nothing else.
begin_except_raise_only(r, e, fails) ==
    [added(r, e) EXCEPT !.exc = e]

\* The except clause of begin, for the exception e of the body (or of the
\* lines before the yield); the exc of the result is what leaves the scope.
begin_except(r, e, fails) ==
    LET rollbacked(b) ==
            IF Raised(b)
            THEN Doomed(added(b, b.exc), "Transactions rollbacking failed.")
            ELSE [b EXCEPT !.exc = e]
        except(a) ==
            IF a.t.already_rollbacked
            THEN Doomed(a, "Transactions already rollbacked")
            ELSE rollbacked(TransactionsManager_rollback(a, fails))
    IN except(added(r, e))

RECURSIVE SelectHandlers(_, _, _)
SelectHandlers(t, i, can) ==
    IF i > Len(t.handlers) THEN <<>>
    ELSE (IF t.handlers[i] = can THEN <<i>> ELSE <<>>)
             \o SelectHandlers(t, i + 1, can)

\* prepare_commit_trs and no_prepare_commit_trs of commit.
prepare_commit_trs(t) == SelectHandlers(t, 1, TRUE)

no_prepare_commit_trs(t) == SelectHandlers(t, 1, FALSE)

\* any(not h.prepare_commit() for h in prepare_commit_trs): prepare_commit
\* returns false for the handlers in refuse and raises for those in fails.
\* Result: the run and the value of any.
RECURSIVE any_not_prepared(_, _, _, _, _)
any_not_prepared(r, hs, i, refuse, fails) ==
    IF i > Len(hs)
    THEN [r |-> r, any |-> FALSE]
    ELSE IF hs[i] \in fails
         THEN [r |-> Raise(Invoke(r, "prepare_commit", hs[i], "raise"),
                           "prepare_commit", hs[i]),
               any |-> FALSE]
         ELSE IF hs[i] \in refuse
              THEN [r |-> Invoke(r, "prepare_commit", hs[i], "false"),
                    any |-> TRUE]
              ELSE any_not_prepared(
                       Invoke(r, "prepare_commit", hs[i], "true"), hs, i + 1,
                       refuse, fails)

\* The input of commit: the handlers whose prepare_commit returns false,
\* those whose prepare_commit raises, those whose commit raises and those
\* whose rollback raises.
CommitInput(refuse, pfails, cfails, rfails) ==
    [refuse |-> refuse, pfails |-> pfails, cfails |-> cfails,
     rfails |-> rfails]

\* Mutant: the handlers are committed in the order of their adding.
commit_all_in_order(r, in) ==
    then_each_handler(
        each_handler(r, "commit", AllHandlers(r.t), 1, in.cfails),
        "commit", <<Mutex>>, in.cfails)

\* The commits of commit(), after the preparation.
commit_all(r, in) ==
    then_each_handler(
        then_each_handler(
            each_handler(r, "commit", no_prepare_commit_trs(r.t), 1,
                         in.cfails),
            "commit", prepare_commit_trs(r.t), in.cfails),
        "commit", <<Mutex>>, in.cfails)

\* Mutant: a prepare_commit that returns false is not looked at.
TransactionsManager_commit_unprepared(r, in) ==
    LET prepared(p) == IF Raised(p.r) THEN p.r ELSE commit_all(p.r, in)
    IN IF ~r.t.begun
       THEN Raise(r, "TransactionException", Mutex)
       ELSE prepared(any_not_prepared(r, prepare_commit_trs(r.t), 1,
                                      in.refuse, in.pfails))

\* Mutant: commit is refused once the transactions are rollbacked.
TransactionsManager_commit_not_rollbacked(r, in) ==
    LET prepared(p) ==
            IF Raised(p.r) THEN p.r
            ELSE IF p.any
                 THEN TransactionsManager_rollback(p.r, in.rfails)
                 ELSE commit_all(p.r, in)
    IN IF ~r.t.begun \/ r.t.already_rollbacked
       THEN Raise(r, "TransactionException", Mutex)
       ELSE prepared(any_not_prepared(r, prepare_commit_trs(r.t), 1,
                                      in.refuse, in.pfails))

TransactionsManager_commit(r, in) ==
    LET prepared(p) ==
            IF Raised(p.r) THEN p.r
            ELSE IF p.any
                 THEN TransactionsManager_rollback(p.r, in.rfails)
                 ELSE commit_all(p.r, in)
    IN IF ~r.t.begun
       THEN Raise(r, "TransactionException", Mutex)
       ELSE prepared(any_not_prepared(r, prepare_commit_trs(r.t), 1,
                                      in.refuse, in.pfails))

\* -------------------------------------------------------- ReferencesDict
\* The dicts and the keys of the examples of ReferencesDict.
Dicts == {"s1", "s2", "s3"}

Keys == {"a", "b"}

\* The values that are not references: 10 and 20.
Values == {<<"value", "10">>, <<"value", "20">>}

\* ReferencesDict.RefValue(refs_dict, key): the reference keeps the dict and
\* the key, not the value.
RefValue(refs_dict, key) == <<"ref", refs_dict, key>>

RefValues == {RefValue(d, k) : d \in Dicts, k \in Keys}

\* What _dict holds for a key that it does not have.
Absent == <<"absent">>

KeyError == <<"KeyError">>

\* What a read raises when it follows references for ever.
RecursionError == <<"RecursionError">>

\* ReferencesDict(): _dict is empty.
ReferencesDict_init == [k \in Keys |-> Absent]

\* A reference that takes the value when it is created.
ref_to_now(ds, self, key) == ds[self][key]

\* self.ref_to(key), in the dicts ds.
ref_to(ds, self, key) == RefValue(self, key)

\* self[key] = value, in the dicts ds: the dicts afterwards.
ReferencesDict_setitem(ds, self, key, value) ==
    [ds EXCEPT ![self][key] = value]

\* del self[key]: the dicts afterwards.
ReferencesDict_delitem(ds, self, key) ==
    [ds EXCEPT ![self][key] = Absent]

\* self[key] with depth more calls allowed on the stack: the value, after
\* the references are followed, or the exception.
RECURSIVE ReferencesDict_getitem_depth(_, _, _, _)
ReferencesDict_getitem_depth(ds, self, key, depth) ==
    LET value == ds[self][key]
    IN  IF value = Absent THEN KeyError
        ELSE IF value \in RefValues
             THEN IF depth = 0 THEN RecursionError
                  ELSE ReferencesDict_getitem_depth(ds, value[2], value[3],
                                                    depth - 1)
             ELSE value

\* self[key]: references that do not loop go through each key at most once.
ReferencesDict_getitem(ds, self, key) ==
    ReferencesDict_getitem_depth(ds, self, key,
                                 Cardinality(Dicts \X Keys))

\* ------------------------------------------- actions that share objects
\* The objects that copies of an action may share: objs are the actions (a
\* template first, then its prepared copies), cells are the
\* _context_managers dicts, ds the _dict of the ReferencesDict objects.  An
\* action holds the index of its _context_managers and the name of its
\* _state, "None" before it is prepared.
Heap(os, cs, ds) == [objs |-> os, cells |-> cs, dicts |-> ds]

\* The ReferencesDict objects that the actions hold.
States(h) == {h.objs[o].state : o \in DOMAIN h.objs} \ {"None"}

\* A ReferencesDict that no action holds yet.
NewDict(h) == CHOOSE d \in Dicts \ States(h) : TRUE

\* StatefullAction(...), UnitAction(...): a template.
StatefullAction_init(class) ==
    Heap(<<[class |-> class, state |-> "None", cms |-> 1]>>,
         <<[action |-> <<>>, rollback |-> <<>>]>>,
         [d \in Dicts |-> ReferencesDict_init])

\* A copy that keeps the _context_managers of the action it copies.
Action_copy_shallow(h, o) ==
    [h EXCEPT !.objs = Append(@, h.objs[o])]

\* copy(action): the copy is the last action; it has its own
\* _context_managers, with its own lists, and shares the rest.
Action_copy(h, o) ==
    [h EXCEPT !.objs = Append(@, [h.objs[o] EXCEPT
                                      !.cms = Len(h.cells) + 1]),
              !.cells = Append(@, [action |-> h.cells[h.objs[o].cms].action,
                                   rollback |->
                                       h.cells[h.objs[o].cms].rollback])]

\* action.add_context_manager(side, cm, inner), on the _context_managers
\* that the action holds.
Heap_add_context_manager(h, o, side, cm, inner) ==
    [h EXCEPT !.cells[h.objs[o].cms][side] =
                  IF inner THEN <<cm>> \o @ ELSE Append(@, cm)]

\* ReferencesDict(dic): a copy of dic.
ReferencesDict_copy(dic) == [k \in Keys |-> dic[k]]

\* action.get_prepared_action(**kwargs), on an action that is not prepared:
\* the prepared copy is the last action.
Heap_get_prepared_action(h, o, kwargs) ==
    LET copied == Action_copy(h, o)
        p == Len(copied.objs)
        stated == [copied EXCEPT !.objs[p].state = NewDict(h),
                                 !.dicts[NewDict(h)] =
                                     ReferencesDict_copy(kwargs)]
        checked == Heap_add_context_manager(stated, p, "action", Checks,
                                            TRUE)
    IN  IF h.objs[o].class = "UnitAction"
        THEN Heap_add_context_manager(checked, p, "action", Enables, TRUE)
        ELSE checked

\* The keys of after_state.
KeysOf(after_state) == {k \in Keys : after_state[k] # Absent}

\* _state.update(after_state): every key of after_state is set.
ReferencesDict_update(dic, after_state) ==
    [k \in Keys |-> IF k \in KeysOf(after_state)
                    THEN after_state[k] ELSE dic[k]]

\* A simulate that makes a new ReferencesDict from the state and
\* after_state.
Heap_simulate_new_dict(h, o, after_state) ==
    [h EXCEPT !.objs[o].state = NewDict(h),
              !.dicts[NewDict(h)] =
                  ReferencesDict_update(h.dicts[h.objs[o].state],
                                        after_state)]

\* action.simulate(side, after_state), on a prepared action: the state is
\* updated in place.
Heap_simulate(h, o, after_state) ==
    [h EXCEPT !.dicts[h.objs[o].state] =
                  ReferencesDict_update(@, after_state)]

\* len(dic): the number of the keys of a ReferencesDict.
ReferencesDict_len(dic) == Cardinality(KeysOf(dic))

\* action.state: `if not self._state` is true of None and of a
\* ReferencesDict of length 0.
StatefullAction_state(h, o) ==
    IF h.objs[o].state = "None"
    THEN <<"ActionException", "You must prepare the action">>
    ELSE IF ReferencesDict_len(h.dicts[h.objs[o].state]) = 0
         THEN <<"ActionException", "You must prepare the action">>
         ELSE <<"state", h.objs[o].state>>

\* What simulate emits: one information, and no call.
Simulate_events(side) == << <<"send_info", side, "simul">> >>

\* ------------------------------------------------- the manager's history
\* An entry of the history: the operation; of the manager before it,
\* whether it had begun, whether it had rollbacked and the number of
\* exceptions it had encountered; the exception the operation handled (the
\* one of the body, for the exit of the scope), the exception it raised and
\* the methods of the handlers it invoked.
TOp(op, before, e, r) ==
    [op |-> op,
     begun |-> before.begun,
     rolled |-> before.already_rollbacked,
     nbefore |-> Len(before.exceptions_encountered),
     e |-> e, exc |-> r.exc, calls |-> r.calls]

NoTOp == TOp("none", TransactionsManager_init, NoExc,
             Run(TransactionsManager_init, 0))

\* A manager that was just built and is not used.
TIdle ==
    /\ trm = TransactionsManager_init
    /\ pc = "outside"
    /\ pending = NoExc
    /\ serial = 0
    /\ nops = 0
    /\ tlast = NoTOp

\* -------------------------------------------------- the action's history
NoCm == <<"none", "", 0, FALSE>>

NoInput == ActionInput("ok", FALSE, NoCm, "none")

\* An entry of the history: the operation, its side, its input, whether
\* undo was hidden before it, the exception it raised and its events.
AOp(op, side, in, before, r) ==
    [op |-> op, side |-> side, in |-> in, hidden |-> before.undo_hidden,
     exc |-> r.exc, events |-> r.events]

NoAOp ==
    AOp("none", "action", NoInput, Action_init("Action", FALSE),
        ActionRun(Action_init("Action", FALSE)))

\* What has happened to a UnitAction so far.  "done": a do() returned
\* without raising, or simulate("action") was called before or after a
\* do(); "simulated": simulate("action") was called and do() never was;
\* "returned": neither, but a do() ran the function and the function
\* returned, or a context manager caught its exception; "called": none of
\* these, but do() was called; "nothing": none of these.
NotDone == "nothing"

\* An action that was just built and is not used.
AIdle ==
    /\ act = Action_init("Action", FALSE)
    /\ alast = NoAOp
    /\ adone = NotDone

\* --------------------------------------------------- the dicts' history
\* Dicts that were just built and are not used.
RIdle ==
    /\ dicts = [d \in Dicts |-> ReferencesDict_init]
    /\ written = [d \in Dicts |-> ReferencesDict_init]
    /\ rlast = "none"

\* ------------------------------------------ the shared objects' history
\* An entry of the history: the operation, the action it was called on, its
\* side, the after_state of simulate and what the operation emitted.
SOp(op, o, side, after_state, events) ==
    [op |-> op, obj |-> o, side |-> side, after |-> after_state,
     events |-> events]

NoSOp == SOp("none", 0, "action", ReferencesDict_init, <<>>)

\* No action yet.
SIdle ==
    /\ objs = <<>>
    /\ cells = <<>>
    /\ slast = NoSOp

\* ---------------------------------------------------- the info streamers
\* An entry of the history: the operation, the object it was called on (0
\* is the pipeline), the streamer given, what it raised and the streamers
\* before it.
IOp(op, o, streamer, exc, before) ==
    [op |-> op, obj |-> o, arg |-> streamer, exc |-> exc, before |-> before]

\* A pipeline that was just built.
IIdle ==
    /\ info_streamer = ActionsPipeline_init_info_streamer
    /\ ilast = IOp("none", 0, "InfoStreamer", "none",
                   ActionsPipeline_init_info_streamer)

\* ----------------------------------------------------------- the copies
\* No copy yet.
CIdle == others = <<>>

\* -------------------------------------------------- the pipeline's runs
\* An entry of the history: the operation, its argument (the log of
\* simulate_until, the appended action, the action that raises in a do or
\* an undo), whether it was the first
\* operation other than append, the list before it, what it raised and the
\* methods of the actions it invoked.
Op(op, arg, first, rl, o) ==
    [op |-> op, arg |-> arg, first |-> first, list |-> rl.list,
     exc |-> o.exc, calls |-> o.calls]

NoOp ==
    Op("none", <<>>, FALSE, ReversibleList_init,
       Outcome(ReversibleList_init, "none", <<>>))

RECURSIVE SeqsUpTo(_, _)
SeqsUpTo(S, n) ==
    IF n = 0 THEN {<<>>}
    ELSE LET P == SeqsUpTo(S, n - 1) IN
         P \cup {Append(s, x) : s \in {t \in P : Len(t) = n - 1}, x \in S}

\* The names of the actions 1..k, then the rollback names of k, k-1, ...,
\* k-j+1: what the info streamer has logged when the pipeline stopped after
\* k actions and j rollbacks.
RECURSIVE ForwardNames(_)
ForwardNames(k) == IF k = 0 THEN <<>> ELSE Append(ForwardNames(k - 1), name(k))

RECURSIVE RollbackNames(_, _)
RollbackNames(k, j) ==
    IF j = 0 THEN <<>>
    ELSE <<rollback_name(k)>> \o RollbackNames(k - 1, j - 1)

LogOf(k, j) == ForwardNames(k) \o RollbackNames(k, j)

\* The logs given to simulate_until: every log of at most MaxLog names, and
\* every log of a stopped pipeline, alone or followed by one more name.
Logs ==
    SeqsUpTo(Names, MaxLog)
        \cup {LogOf(k, j) \o t : k \in 0..MaxActions, j \in 0..MaxActions,
                                 t \in SeqsUpTo(Names, 1)}

\* A pipeline that was just built and is not used.
PIdle ==
    /\ actions_pipeline = ReversibleList_init
    /\ actions_list = <<>>
    /\ started = FALSE
    /\ prev = NoOp
    /\ last = NoOp

PInit ==
    /\ PIdle
    /\ TIdle
    /\ AIdle
    /\ RIdle
    /\ SIdle
    /\ CIdle
    /\ IIdle

\* ap.append(action), with a new action.
PAppend ==
    /\ UNCHANGED <<tvars, avars, rvars, svars, cvars, ivars>>
    /\ Len(actions_list) < MaxActions
    /\ LET a == Len(actions_list) + 1
           rl == ActionsPipeline_append(actions_pipeline, a)
       IN /\ actions_pipeline' = rl
          /\ actions_list' = Append(actions_list, a)
          /\ last' = Op("append", <<a>>, FALSE, actions_pipeline,
                        Outcome(rl, "none", <<>>))
    /\ prev' = last
    /\ UNCHANGED started

\* ap.do(); the do of action f raises (none when f = 0).
PDo ==
    /\ UNCHANGED <<tvars, avars, rvars, svars, cvars, ivars>>
    /\ \E f \in ActionIds \cup {0} :
        LET o == ActionsPipeline_do(actions_pipeline, {f}) IN
        /\ actions_pipeline' = o.rl
        /\ last' = Op("do", <<f>>, ~started, actions_pipeline, o)
        /\ prev' = last
        /\ started' = TRUE
        /\ UNCHANGED actions_list

\* ap.undo(); the undo of action f raises (none when f = 0).
PUndo ==
    /\ UNCHANGED <<tvars, avars, rvars, svars, cvars, ivars>>
    /\ \E f \in ActionIds \cup {0} :
        LET o == ActionsPipeline_undo(actions_pipeline, {f}) IN
        /\ actions_pipeline' = o.rl
        /\ last' = Op("undo", <<f>>, ~started, actions_pipeline, o)
        /\ prev' = last
        /\ started' = TRUE
        /\ UNCHANGED actions_list

\* ap.simulate_until(log), on a pipeline that was just built: the resume
\* after a crash.
PSimulateUntil ==
    /\ UNCHANGED <<tvars, avars, rvars, svars, cvars, ivars>>
    /\ ~started
    /\ \E log \in Logs :
        LET o == simulate_until(actions_pipeline, log) IN
        /\ actions_pipeline' = o.rl
        /\ last' = Op("simulate_until", log, TRUE,
                      actions_pipeline, o)
        /\ prev' = last
        /\ started' = TRUE
        /\ UNCHANGED actions_list

PNext == PAppend \/ PDo \/ PUndo \/ PSimulateUntil

SpecPipeline == PInit /\ [][PNext]_vars

\* ------------------------------------------------------ pipeline: claims
IsPrefix(s, t) == Len(s) <= Len(t) /\ s = SubSeq(t, 1, Len(s))

\* do on the actions p+1, ..., n in this order.
RECURSIVE DoCalls(_, _)
DoCalls(p, n) ==
    IF p >= n THEN <<>> ELSE <<Call("do", p + 1)>> \o DoCalls(p + 1, n)

\* undo on the actions k, k-1, ..., 1 in this order.
RECURSIVE UndoCalls(_)
UndoCalls(k) ==
    IF k <= 0 THEN <<>> ELSE <<Call("undo", k)>> \o UndoCalls(k - 1)

\* The action a pipeline do was executing when it raised.
FailedAction(e) == e.calls[Len(e.calls)][2]

\* The do ran on the list in the order of appending, entered the actions
\* 1, ..., k and raised in k.
RaisedIn(e) ==
    /\ e.op = "do" /\ e.exc # "none"
    /\ e.list = actions_list
    /\ e.calls = DoCalls(0, FailedAction(e))

C2_DoThenUndo ==
    /\ (last.op = "do" /\ last.first /\ last.exc = "none")
           => last.calls = DoCalls(0, Len(actions_list))
    /\ (prev.op = "do" /\ prev.first /\ prev.exc = "none"
            /\ last.op = "undo" /\ last.exc = "none")
           => /\ prev.calls = DoCalls(0, Len(actions_list))
              /\ last.calls = UndoCalls(Len(actions_list))

C2_Witness ==
    /\ prev.op = "do" /\ prev.first /\ prev.exc = "none"
    /\ last.op = "undo" /\ last.exc = "none"
    /\ Len(actions_list) = MaxActions
    /\ Len(last.calls) = MaxActions

\* The log is the one of a pipeline of n actions stopped after k actions
\* and j >= 1 rollbacks.
PartlyRolledBack(log, n) ==
    \E k \in 1..n : \E j \in 1..k : log = LogOf(k, j)

StoppedAt(log, n) ==
    CHOOSE kj \in (1..n) \X (1..n) : kj[2] <= kj[1] /\ log = LogOf(kj[1], kj[2])

\* C10: simulate_until of the log of k actions and then the rollbacks of the
\* last j of them (1 <= j <= k <= n) does not raise, and the undo() that
\* follows invokes undo on k-j, ..., 1 in this order (on nothing when
\* j = k).
C10_SimulateUntilWithRollbacks ==
    /\ (last.op = "simulate_until"
            /\ PartlyRolledBack(last.arg, Len(actions_list)))
           => last.exc = "none"
    /\ (prev.op = "simulate_until"
            /\ PartlyRolledBack(prev.arg, Len(actions_list))
            /\ last.op = "undo")
           => LET kj == StoppedAt(prev.arg, Len(actions_list))
                  todo == UndoCalls(kj[1] - kj[2])
              IN /\ prev.exc = "none"
                 /\ IsPrefix(last.calls, todo)
                 /\ last.exc = "none" => last.calls = todo

\* The pipeline has one action more than the log: the first loop stops on a
\* rollback name and steps back.
C10_Witness ==
    /\ prev.op = "simulate_until"
    /\ Len(actions_list) = 3
    /\ prev.arg = LogOf(2, 1)
    /\ last.op = "undo" /\ last.exc = "none"
    /\ last.calls = <<Call("undo", 1)>>

\* simulate on the actions 1, ..., k in this order.
RECURSIVE SimulateCalls(_)
SimulateCalls(k) ==
    IF k <= 0 THEN <<>>
    ELSE Append(SimulateCalls(k - 1), Call("simulate_action", k))

\* The log is the forward names of the first k actions of the pipeline.
OnlyForward(e, k) ==
    /\ e.op = "simulate_until"
    /\ k \in 0..Len(actions_list)
    /\ e.arg = ForwardNames(k)

\* C11: simulate_until of the forward names of the first k actions of a
\* pipeline of n actions (k <= n) does not raise, invokes nothing but
\* simulate on these k actions and leaves the cursor at k: the do() that
\* follows invokes do on the actions after the k-th, in order, and the
\* undo() that follows instead invokes undo on the k-th, ..., the first, in
\* order (up to the one that raises, if one raises).
C11_SimulateUntilForward ==
    \A k \in 0..MaxActions + 1 :
        /\ OnlyForward(last, k)
               => /\ last.exc = "none"
                  /\ last.calls = SimulateCalls(k)
                  /\ actions_pipeline.position = k
                  /\ actions_pipeline.list = actions_list
        /\ (OnlyForward(prev, k) /\ last.op = "do")
               => /\ IsPrefix(last.calls, DoCalls(k, Len(actions_list)))
                  /\ last.exc = "none"
                         => last.calls = DoCalls(k, Len(actions_list))
        /\ (OnlyForward(prev, k) /\ last.op = "undo")
               => /\ IsPrefix(last.calls, UndoCalls(k))
                  /\ last.exc = "none" => last.calls = UndoCalls(k)

C11_Witness ==
    /\ Len(actions_list) = 3
    /\ OnlyForward(prev, 1)
    /\ last.op = "do" /\ last.exc = "none"
    /\ last.calls = <<Call("do", 2), Call("do", 3)>>

\* The log is the one of a pipeline of n actions stopped after k actions
\* and j rollbacks, 0 <= j <= k <= n.
WellFormed(log, n) ==
    \E k \in 0..n : \E j \in 0..k : log = LogOf(k, j)

\* C12: the names of the actions being pairwise distinct, simulate_until
\* raises ActionException for every log that is not the forward names of
\* the first k actions followed by the rollback names of the last j of
\* them, in the reverse order (0 <= j <= k <= n).
C12_SimulateUntilRejects ==
    (last.op = "simulate_until"
         /\ ~WellFormed(last.arg, Len(actions_list)))
        => last.exc = "ActionException"

\* A rollback entry that does not match, and an entry left over.
C12_Witness ==
    /\ last.op = "simulate_until"
    /\ Len(actions_list) = 2
    /\ last.arg \in {<<name(1), name(2), rollback_name(1)>>,
                     <<name(1), rollback_name(1), name(1)>>}
    /\ last.exc = "ActionException"

\* C18: when the do of an action raises during a pipeline do(), the
\* exception propagates out of the pipeline's do(), the failing do is the
\* last one invoked, no action appended after the failing one has its do
\* invoked, and the cursor is left just past the failing action: at
\* position f for the f-th action appended.
C18_Stated ==
    \A f \in ActionIds :
        (last.op = "do" /\ last.arg = <<f>>
             /\ Call("do", f) \in Range(last.calls))
            => /\ last.exc = "Exception"
               /\ last.calls[Len(last.calls)] = Call("do", f)
               /\ \A i \in 1..Len(last.calls) : last.calls[i][2] <= f
               /\ actions_pipeline.position = f

\* C19: the list is in the order of appending whenever a pipeline undo()
\* has returned or raised; after a first do() that completed and an undo()
\* that completed the cursor is at position 0, and a do() called then
\* invokes do on every action, in the order of appending.
C19_Stated ==
    /\ last.op = "undo" => actions_pipeline.list = actions_list
    /\ (prev.op = "do" /\ prev.first /\ prev.exc = "none"
            /\ last.op = "undo" /\ last.exc = "none")
           => /\ actions_pipeline.position = 0
              /\ ActionsPipeline_do(actions_pipeline, {})
                     = Outcome(ActionsPipeline_do(actions_pipeline, {}).rl,
                               "none", DoCalls(0, Len(actions_list)))

\* C20: after a first do() that completed, an undo() in which the undo of
\* an action raises still invokes undo on every action, down to the first
\* one, and raises.
C20_Stated ==
    (prev.op = "do" /\ prev.first /\ prev.exc = "none"
         /\ last.op = "undo" /\ last.exc # "none")
        => last.calls = UndoCalls(Len(actions_list))

\* ------------------------------------------------------ the action's runs
\* The user's context managers of a side.
UserCms(a, side) ==
    {cm \in Range(a.context_managers[side]) : cm[1] = "cm"}

\* The inputs of do() and undo().  The function is not called when an
\* enter raises, and a context manager that catches has an exception to
\* catch when the function raises or the item of the rollback is missing.
ActionInputs(a, side) ==
    LET checked == side = "action" /\ a.prepared /\ a.requires
        fcts == {<<"ok", FALSE>>, <<"raise", FALSE>>}
                    \cup (IF checked THEN {<<"ok", TRUE>>} ELSE {})
        caught == {<<"raise", FALSE>>}
                      \cup (IF checked THEN {<<"ok", FALSE>>} ELSE {})
    IN {ActionInput(fi[1], fi[2], NoCm, "none") : fi \in fcts}
           \cup {ActionInput(fi[1], fi[2], cm, "exit") :
                     fi \in fcts, cm \in UserCms(a, side)}
           \cup {ActionInput(fi[1], fi[2], cm, "catch") :
                     fi \in caught, cm \in UserCms(a, side)}
           \cup {ActionInput("ok", FALSE, cm, "enter") :
                     cm \in UserCms(a, side)}

\* The action can be run: a StatefullAction has to be prepared.
Runnable == act.class = "Action" \/ act.prepared

\* No do, undo or simulate was called yet.
NotRun == alast.op \in {"none", "add_context_manager", "get_prepared_action"}

\* An action of one of the three classes; the rollback of a StatefullAction
\* and of a UnitAction is declared with one state item.
AInit ==
    /\ \E class \in {"Action", "StatefullAction", "UnitAction"} :
           act = Action_init(class, class # "Action")
    /\ alast = NoAOp
    /\ adone = NotDone
    /\ PIdle
    /\ TIdle
    /\ RIdle
    /\ SIdle
    /\ CIdle
    /\ IIdle

\* action.add_context_manager(side, cm, inner), with a new context manager;
\* inner makes no difference on a side that has no context manager yet.
AAddContextManager ==
    /\ UNCHANGED <<pvars, tvars, rvars, svars, cvars, ivars>>
    /\ NotRun
    /\ Cardinality(UserCms(act, "action") \cup UserCms(act, "rollback"))
           < MaxHooks
    /\ \E side \in Sides :
       \E inner \in IF act.context_managers[side] = <<>>
                     THEN {FALSE} ELSE BOOLEAN :
        LET cm == Cm(side, Cardinality(UserCms(act, side)) + 1, inner)
            a == add_context_manager(act, side, cm, inner)
        IN /\ act' = a
           /\ alast' = AOp("add_context_manager", side,
                           ActionInput("ok", inner, cm, "none"), act,
                           ActionRun(a))
    /\ UNCHANGED adone

\* action.get_prepared_action(**kwargs); the model goes on with the copy.
AGetPreparedAction ==
    /\ UNCHANGED <<pvars, tvars, rvars, svars, cvars, ivars>>
    /\ NotRun
    /\ act.class # "Action" /\ ~act.prepared
    /\ act' = get_prepared_action(act)
    /\ alast' = AOp("get_prepared_action", "action", NoInput, act,
                    ActionRun(act'))
    /\ UNCHANGED adone

\* action.do()
ADo ==
    /\ UNCHANGED <<pvars, tvars, rvars, svars, cvars, ivars>>
    /\ Runnable
    /\ \E in \in ActionInputs(act, "action") :
       \E r \in {Action_do(act, in)} :
        /\ act' = r.a
        /\ alast' = AOp("do", "action", in, act, r)
        /\ adone' = IF act.class # "UnitAction" THEN adone
                     ELSE IF adone \in {"done", "simulated"}
                                 \/ r.exc = NoException
                          THEN "done"
                     ELSE IF <<"call", "action">> \in Range(r.events)
                                 /\ (in.fct = "ok" \/ in.fault = "catch")
                          THEN "returned"
                     ELSE IF adone = "nothing" THEN "called"
                     ELSE adone

\* action.undo()
AUndo ==
    /\ UNCHANGED <<pvars, tvars, rvars, svars, cvars, ivars>>
    /\ Runnable
    /\ \E in \in IF act.undo_hidden THEN {NoInput}
                 ELSE ActionInputs(act, "rollback") :
       \E r \in {Action_undo(act, in)} :
        /\ act' = r.a
        /\ alast' = AOp("undo", "rollback", in, act, r)
    /\ UNCHANGED adone

\* action.simulate(side, after_state); the after_state of a rollback has
\* no item.
ASimulate ==
    /\ UNCHANGED <<pvars, tvars, rvars, svars, cvars, ivars>>
    /\ Runnable
    /\ \E side \in Sides :
       \E keys \in IF side = "action" THEN SUBSET {"item"} ELSE {{}} :
       \E r \in {Action_simulate(act, side, keys)} :
        /\ act' = r.a
        /\ alast' = AOp("simulate", side,
                        ActionInput("ok", keys # {}, NoCm, "none"), act, r)
        /\ adone' = IF act.class = "UnitAction" /\ side = "action"
                     THEN IF adone \in {"nothing", "simulated"}
                          THEN "simulated" ELSE "done"
                     ELSE adone

ANext ==
    \/ AAddContextManager
    \/ AGetPreparedAction
    \/ ADo
    \/ AUndo
    \/ ASimulate

SpecAction == AInit /\ [][ANext]_vars

\* --------------------------------------------------- the manager's runs
TInit ==
    /\ TIdle
    /\ PIdle
    /\ AIdle
    /\ RIdle
    /\ SIdle
    /\ CIdle
    /\ IIdle

\* The handlers whose methods may raise: the default mutex handler is a
\* TransactionHandler, whose methods do nothing.
MayRaise(t) ==
    (1..Len(t.handlers)) \cup (IF t.mutex = "custom" THEN {Mutex} ELSE {})

\* The handlers that execute(), rollback() and commit() may see raise: a
\* manager that has not begun raises before it invokes any.
Invoked(t) == IF t.begun THEN MayRaise(t) ELSE {}

\* At most one handler: the loops that stop at the first exception.
OneOf(S) == {{}} \cup {{h} : h \in S}

\* The inputs of commit: a prepare_commit that raises; or one that returns
\* false, and the rollbacks that raise; or, every commit being prepared, a
\* commit that raises.
CommitInputs(t) ==
    LET hs == Invoked(t) \ {Mutex}
        prep == {h \in hs : t.handlers[h]}
    IN {CommitInput({}, {h}, {}, {}) : h \in prep}
       \cup {CommitInput({h}, {}, {}, rfails) :
                 h \in prep, rfails \in SUBSET Invoked(t)}
       \cup {CommitInput({}, {}, cfails, {}) : cfails \in OneOf(Invoked(t))}

\* The operations of the manager are called in the body of a scope and,
\* outside, before the first scope and after a scope that returned.
Callable ==
    \/ pc = "body"
    \/ pc = "outside" /\ ~(tlast.op \in {"begin", "exit"} /\ tlast.exc # NoExc)

\* What an operation called by the user leaves: in the body of the scope
\* its exception is the one that was just raised there.
Called(op, r, e) ==
    \E x \in {r} :
    /\ trm' = x.t
    /\ serial' = x.serial
    /\ tlast' = TOp(op, trm, e, x)
    /\ nops' = nops + 1
    /\ IF pc = "body" /\ Raised(x)
       THEN pc' = "raising" /\ pending' = x.exc
       ELSE UNCHANGED <<pc, pending>>

\* trm.add_transaction_handler(handler); can is its can_prepare_commit().
TAddTransactionHandler ==
    /\ UNCHANGED <<pvars, avars, rvars, svars, cvars, ivars>>
    /\ Callable
    /\ IF trm.begun THEN nops < MaxOps ELSE Len(trm.handlers) < MaxHandlers
    /\ \E can \in IF trm.begun THEN {FALSE} ELSE BOOLEAN :
        LET r == Run(trm, serial) IN
        Called("add_transaction_handler",
               IF trm.begun
               THEN Raise(r, "TransactionException", Mutex)
               ELSE [r EXCEPT !.t.handlers = Append(@, can)],
               NoExc)

\* trm.set_mutex_handler(handler), with a handler whose methods may raise.
TSetMutexHandler ==
    /\ UNCHANGED <<pvars, avars, rvars, svars, cvars, ivars>>
    /\ Callable
    /\ nops < MaxOps
    /\ LET r == Run(trm, serial) IN
       Called("set_mutex_handler",
              IF trm.begun
              THEN Raise(r, "TransactionException", Mutex)
              ELSE [r EXCEPT !.t.mutex = "custom"],
              NoExc)

\* with trm.begin(): the lines before the yield and, when one of them
\* raises, the except clause.  The scope is begun on a manager that was
\* just set up, whose last begin raised, or that just left a scope; the
\* begin of a handler raises in the first two cases only, the lines before
\* the yield being the same in the three.
TBegin ==
    /\ UNCHANGED <<pvars, avars, rvars, svars, cvars, ivars>>
    /\ pc = "outside"
    /\ tlast.op \in {"none", "add_transaction_handler", "set_mutex_handler",
                     "begin", "exit"}
    /\ \E bfails \in IF tlast.op = "exit" THEN {{}}
                     ELSE OneOf(MayRaise(trm)) :
       \E rfails \in IF bfails = {} THEN {{}} ELSE SUBSET MayRaise(trm) :
        \E r \in {begin_enter(Run(trm, 0), bfails)} :
        \E x \in {IF Raised(r) THEN begin_except(r, r.exc, rfails) ELSE r} :
           /\ trm' = x.t
           /\ serial' = x.serial
           /\ tlast' = TOp("begin", trm, r.exc, x)
           /\ nops' = 0
           /\ pc' = IF Raised(r) THEN "outside" ELSE "body"
           /\ pending' = NoExc

\* trm.execute()
TExecute ==
    /\ UNCHANGED <<pvars, avars, rvars, svars, cvars, ivars>>
    /\ Callable
    /\ nops < MaxOps
    /\ \E fails \in OneOf(Invoked(trm) \ {Mutex}) :
        Called("execute", TransactionsManager_execute(Run(trm, serial), fails),
               NoExc)

\* trm.rollback()
TRollback ==
    /\ UNCHANGED <<pvars, avars, rvars, svars, cvars, ivars>>
    /\ Callable
    /\ nops < MaxOps
    /\ \E fails \in SUBSET Invoked(trm) :
        Called("rollback",
               TransactionsManager_rollback(Run(trm, serial), fails), NoExc)

\* trm.commit()
TCommit ==
    /\ UNCHANGED <<pvars, avars, rvars, svars, cvars, ivars>>
    /\ Callable
    /\ nops < MaxOps
    /\ \E in \in CommitInputs(trm) :
        Called("commit", TransactionsManager_commit(Run(trm, serial), in),
               NoExc)

\* The body of the scope raises an exception of its own.
TBodyRaise ==
    /\ UNCHANGED <<pvars, avars, rvars, svars, cvars, ivars>>
    /\ pc = "body"
    /\ nops < MaxOps
    /\ pc' = "raising"
    /\ pending' = Exc("body", Mutex, serial)
    /\ serial' = serial + 1
    /\ nops' = nops + 1
    /\ tlast' = TOp("raise", trm, NoExc,
                    Raise(Run(trm, serial), "body", Mutex))
    /\ UNCHANGED trm

\* The body catches the exception that was just raised and goes on.
TBodyCatch ==
    /\ UNCHANGED <<pvars, avars, rvars, svars, cvars, ivars>>
    /\ pc = "raising"
    /\ pc' = "body"
    /\ pending' = NoExc
    /\ UNCHANGED <<trm, serial, nops, tlast>>

\* The exception leaves the body: the except clause of begin.
TExitRaising ==
    /\ UNCHANGED <<pvars, avars, rvars, svars, cvars, ivars>>
    /\ pc = "raising"
    /\ \E rfails \in IF trm.already_rollbacked THEN {{}}
                     ELSE SUBSET MayRaise(trm) :
        \E x \in {begin_except(Run(trm, serial), pending, rfails)} :
        /\ trm' = x.t
        /\ serial' = x.serial
        /\ tlast' = TOp("exit", trm, pending, x)
    /\ pc' = "outside"
    /\ pending' = NoExc
    /\ UNCHANGED nops

\* The body returns: nothing after the yield.
TExitReturning ==
    /\ UNCHANGED <<pvars, avars, rvars, svars, cvars, ivars>>
    /\ pc = "body"
    /\ pc' = "outside"
    /\ tlast' = TOp("exit", trm, NoExc, Run(trm, serial))
    /\ UNCHANGED <<trm, pending, serial, nops>>

TNext ==
    \/ TAddTransactionHandler
    \/ TSetMutexHandler
    \/ TBegin
    \/ TExecute
    \/ TRollback
    \/ TCommit
    \/ TBodyRaise
    \/ TBodyCatch
    \/ TExitRaising
    \/ TExitReturning

SpecTM == TInit /\ [][TNext]_vars

\* ------------------------------------------------------- manager: claims
\* The invocations of the method m among calls, in order.
RECURSIVE Of(_, _)
Of(calls, m) ==
    IF calls = <<>> THEN <<>>
    ELSE (IF Head(calls)[1] = m THEN <<Head(calls)>> ELSE <<>>)
             \o Of(Tail(calls), m)

\* The invocations among calls that raised, in order.
RECURSIVE Raising(_)
Raising(calls) ==
    IF calls = <<>> THEN <<>>
    ELSE (IF Head(calls)[3] = "raise" THEN <<Head(calls)>> ELSE <<>>)
             \o Raising(Tail(calls))

HandlersOf(calls) == [i \in 1..Len(calls) |-> calls[i][2]]

\* The method and the handler of each exception of a list.
ByOf(excs) == [i \in 1..Len(excs) |-> excs[i].by]

RaisedBy(calls) == [i \in 1..Len(calls) |-> <<calls[i][1], calls[i][2]>>]

\* Every handler in the order of adding, then the mutex handler.
HandlersThenMutex == AllHandlers(trm) \o <<Mutex>>

\* The exceptions the last operation added to exceptions_encountered.
Added ==
    SliceFrom(trm.exceptions_encountered, tlast.nbefore)

Injective(f) == \A i, j \in DOMAIN f : f[i] = f[j] => i = j

Committing == tlast.op = "commit" /\ tlast.begun

Refused == \E c \in Range(tlast.calls) : c[1] = "prepare_commit" /\ c[3] = "false"

\* C3 as stated: no commit is invoked before every handler that can prepare
\* has returned true from prepare_commit; when a prepare_commit returns
\* false, commit() calls rollback() and returns without raising.
C3_Stated ==
    Committing =>
        /\ Of(tlast.calls, "commit") # <<>>
               => \A h \in Range(prepare_commit_trs(trm)) :
                      TCall("prepare_commit", h, "true") \in Range(tlast.calls)
        /\ Refused
               => /\ HandlersOf(Of(tlast.calls, "rollback")) = HandlersThenMutex
                  /\ tlast.exc = NoExc

\* C3, amended: no commit is invoked before every handler that can prepare
\* has returned true from prepare_commit; when a prepare_commit returns
\* false, commit() invokes no commit and calls rollback(), which invokes
\* the rollback of every handler and of the mutex handler; commit() then
\* returns without raising when no rollback raised, and raises the
\* exception of the last rollback that raised otherwise.
C3_CommitOnlyWhenPrepared ==
    Committing =>
        /\ Of(tlast.calls, "commit") # <<>>
               => \A h \in Range(prepare_commit_trs(trm)) :
                      TCall("prepare_commit", h, "true") \in Range(tlast.calls)
        /\ Refused
               => LET rb == Of(tlast.calls, "rollback") IN
                  /\ Of(tlast.calls, "commit") = <<>>
                  /\ HandlersOf(rb) = HandlersThenMutex
                  /\ trm.already_rollbacked
                  /\ Raising(rb) = <<>> => tlast.exc = NoExc
                  /\ Raising(rb) # <<>>
                         => tlast.exc = Added[Len(Added)]

\* The second handler that can prepare refuses, after the first accepted.
C3_Witness ==
    /\ Committing
    /\ trm.handlers = <<TRUE, TRUE>>
    /\ tlast.calls = <<TCall("prepare_commit", 1, "true"),
                       TCall("prepare_commit", 2, "false"),
                       TCall("rollback", 1, "ok"),
                       TCall("rollback", 2, "ok"),
                       TCall("rollback", Mutex, "ok")>>
    /\ tlast.exc = NoExc

\* An exception leaves the body of the scope.
Leaving == tlast.op = "exit" /\ tlast.e # NoExc

\* C4: when an exception leaves the body of a scope in which rollback()
\* was not called, the manager invokes the rollback of every handler once,
\* in the order of adding, then the one of the mutex handler, and nothing
\* else; when none of them raises, the scope raises the exception of the
\* body.
C4_BodyExceptionRollsBack ==
    (Leaving /\ ~tlast.rolled) =>
        /\ Of(tlast.calls, "rollback") = tlast.calls
        /\ HandlersOf(tlast.calls) = HandlersThenMutex
        /\ Raising(tlast.calls) = <<>> => tlast.exc = tlast.e

C4_Witness ==
    /\ Leaving /\ ~tlast.rolled
    /\ tlast.e.by = <<"body", Mutex>>
    /\ Len(trm.handlers) = 2
    /\ tlast.calls = <<TCall("rollback", 1, "ok"), TCall("rollback", 2, "ok"),
                       TCall("rollback", Mutex, "ok")>>
    /\ tlast.exc = tlast.e

\* C5: rollback() invokes the rollback of every handler in the order of
\* adding and then the one of the mutex handler, whatever raises; the
\* exceptions raised are appended to exceptions_encountered in the order of
\* the invocations; after all of them, the last one is raised.
C5_RollbackInvokesAll ==
    (tlast.op = "rollback" /\ tlast.begun) =>
        /\ Of(tlast.calls, "rollback") = tlast.calls
        /\ HandlersOf(tlast.calls) = HandlersThenMutex
        /\ ByOf(Added) = RaisedBy(Raising(tlast.calls))
        /\ Injective(trm.exceptions_encountered)
        /\ tlast.exc = IF Added = <<>> THEN NoExc ELSE Added[Len(Added)]

\* The first rollback raises and is not the one that is raised.
C5_Witness ==
    /\ tlast.op = "rollback" /\ tlast.begun
    /\ tlast.calls = <<TCall("rollback", 1, "raise"),
                       TCall("rollback", 2, "ok"),
                       TCall("rollback", Mutex, "raise")>>
    /\ tlast.exc.by = <<"rollback", Mutex>>

IsDoomed(e, msg) == e.by = <<"WeAreDoomedException", msg>>

\* C6: when an exception leaves the body and a rollback of the automatic
\* rollback raises, the scope raises WeAreDoomedException; its traces are
\* the one of the exception of the body, then the ones of the rollbacks
\* that raised, in their order, each one once, and
\* exceptions_encountered holds these exceptions and no other.
C6_DoomedByRollback ==
    (Leaving /\ ~tlast.rolled /\ Raising(tlast.calls) # <<>>) =>
        /\ IsDoomed(tlast.exc, "Transactions rollbacking failed.")
        /\ tlast.exc.traces = trm.exceptions_encountered
        /\ tlast.exc.traces[1] = tlast.e
        /\ ByOf(tlast.exc.traces)
               = <<tlast.e.by>> \o RaisedBy(Raising(tlast.calls))
        /\ Injective(tlast.exc.traces)

C6_Witness ==
    /\ Leaving /\ ~tlast.rolled
    /\ tlast.e.by = <<"body", Mutex>>
    /\ IsDoomed(tlast.exc, "Transactions rollbacking failed.")
    /\ ByOf(tlast.exc.traces)
           = <<<<"body", Mutex>>, <<"rollback", 1>>, <<"rollback", 2>>>>

\* C7: when an exception leaves the body of a scope in which rollback()
\* was called, the scope raises WeAreDoomedException and invokes no
\* rollback.
C7_DoomedAlreadyRollbacked ==
    (Leaving /\ tlast.rolled) =>
        /\ IsDoomed(tlast.exc, "Transactions already rollbacked")
        /\ tlast.calls = <<>>

\* The exception is the one that rollback() raised.
C7_Witness ==
    /\ Leaving /\ tlast.rolled
    /\ tlast.e.by = <<"rollback", 1>>
    /\ IsDoomed(tlast.exc, "Transactions already rollbacked")
    /\ tlast.exc.traces = <<tlast.e>>

Prepared ==
    \A h \in Range(prepare_commit_trs(trm)) :
        TCall("prepare_commit", h, "true") \in Range(tlast.calls)

\* C8: when every prepare_commit returned true, commit() invokes the
\* commit of the handlers that cannot prepare, in the order of adding, then
\* the commit of those that can, in the order of adding, then the commit of
\* the mutex handler; it stops at the first commit that raises.
C8_CommitOrder ==
    (Committing /\ Prepared) =>
        LET cs == Of(tlast.calls, "commit")
            all == no_prepare_commit_trs(trm) \o prepare_commit_trs(trm)
                       \o <<Mutex>>
        IN /\ IsPrefix(HandlersOf(cs), all)
           /\ \A i \in 1..Len(cs) : cs[i][3] = "raise" => i = Len(cs)
           /\ tlast.exc = NoExc => HandlersOf(cs) = all
           /\ tlast.exc # NoExc
                  => cs # <<>> /\ tlast.exc.by = RaisedBy(cs)[Len(cs)]

\* The handler that cannot prepare was added after the one that can.
C8_Witness ==
    /\ Committing
    /\ trm.handlers = <<TRUE, FALSE>>
    /\ tlast.calls = <<TCall("prepare_commit", 1, "true"),
                       TCall("commit", 2, "ok"), TCall("commit", 1, "ok"),
                       TCall("commit", Mutex, "ok")>>

\* The invocations of m are on the handlers of hs in order, up to the first
\* that raises.
UpToFirstRaise(cs, hs) ==
    /\ IsPrefix(HandlersOf(cs), hs)
    /\ \A i \in 1..Len(cs) : cs[i][3] = "raise" => i = Len(cs)
    /\ Raising(cs) = <<>> => HandlersOf(cs) = hs

\* C9: begin invokes the begin of the mutex handler first, then the begin
\* of the handlers in the order of adding; execute() invokes the execute of
\* the handlers in the order of adding; both stop at the first that raises.
C9_BeginAndExecuteOrder ==
    /\ tlast.op = "begin"
           => UpToFirstRaise(Of(tlast.calls, "begin"),
                             <<Mutex>> \o AllHandlers(trm))
    /\ (tlast.op = "begin" /\ pc = "body")
           => tlast.calls = Of(tlast.calls, "begin") /\ tlast.exc = NoExc
    /\ (tlast.op = "execute" /\ tlast.begun)
           => /\ tlast.calls = Of(tlast.calls, "execute")
              /\ UpToFirstRaise(tlast.calls, AllHandlers(trm))
              /\ (tlast.exc # NoExc) = (Raising(tlast.calls) # <<>>)

C9_Witness ==
    /\ tlast.op = "begin" /\ pc = "body"
    /\ trm.mutex = "custom"
    /\ tlast.calls = <<TCall("begin", Mutex, "ok"), TCall("begin", 1, "ok"),
                       TCall("begin", 2, "ok")>>

\* -------------------------------------------------------- action: claims
\* The last operation was an undo() of a prepared UnitAction.
UnitUndo ==
    /\ act.class = "UnitAction" /\ act.prepared
    /\ alast.op = "undo"

\* The undo did nothing: no function, no context manager, no event, no
\* exception.
SilentNoOp == alast.events = <<>> /\ alast.exc = NoException

\* C13 as stated: undo() of a prepared UnitAction is a silent no-op in every
\* state in which no do() has returned without raising and no
\* simulate("action") has happened.
C13_Stated ==
    (UnitUndo /\ adone \notin {"done", "simulated"}) => SilentNoOp

\* C13, amended: undo() of a prepared UnitAction is a silent no-op in every
\* state in which no simulate("action") has happened and no do() has run
\* the function to its return or had the exception of the function caught
\* by a context manager; undo is hidden in every such state.
C13_UndoHiddenUntilDone ==
    /\ (act.class = "UnitAction" /\ act.prepared
            /\ adone \in {"nothing", "called"})
           => act.undo_hidden
    /\ (UnitUndo /\ adone \in {"nothing", "called"}) => SilentNoOp

\* An undo after a do() whose function raised.
C13_Witness ==
    /\ UnitUndo /\ adone = "called"
    /\ "action_failed" \in act.state
    /\ SilentNoOp

\* The last operation was a do() of a prepared StatefullAction (a
\* UnitAction is one).
PreparedDo == act.class # "Action" /\ act.prepared /\ alast.op = "do"

\* C14: whenever do() of a prepared StatefullAction raises the exception of
\* the function, of the enter of a context manager or of the exit of a
\* context manager, "action_failed" is in the state afterwards.
C14_Stated ==
    (PreparedDo /\ alast.exc \in {FctException, EnterException, ExitException})
        => "action_failed" \in act.state

\* The context managers of the events of one kind, in the order of the
\* events.
RECURSIVE CmsOf(_, _)
CmsOf(events, kind) ==
    IF events = <<>> THEN <<>>
    ELSE IF events[1][1] = kind
         THEN <<events[1][2]>> \o CmsOf(Tail(events), kind)
         ELSE CmsOf(Tail(events), kind)

\* The index of the first event e, 0 when there is none.
IndexOf(events, e) ==
    IF e \in Range(events)
    THEN CHOOSE i \in 1..Len(events) :
             events[i] = e /\ \A j \in 1..(i - 1) : events[j] # e
    ELSE 0

\* The function of a do() of a prepared StatefullAction returned and the
\* item that the rollback requires is not in the state.
ItemMissing ==
    /\ PreparedDo /\ act.requires
    /\ alast.in.fct = "ok"
    /\ <<"call", "action">> \in Range(alast.events)
    /\ "item" \notin act.state

\* C15: when the function of a prepared StatefullAction returns and an item
\* that the rollback requires is not in the state, the check raises
\* ActionException when it is reached without an exception ("action_failed"
\* is set on the way), every context manager that was entered is exited
\* after that, and, unless the exit of a user's context manager raises or
\* catches, do() raises this ActionException.
C15_MissingItemsRaise ==
    ItemMissing
        => /\ "action_failed" \in act.state
           /\ \A cm \in Range(CmsOf(alast.events, "enter")) :
                  IndexOf(alast.events, <<"exit", cm>>)
                      > IndexOf(alast.events, <<"call", "action">>)
           /\ alast.in.fault = "none"
                  => /\ alast.exc = MissingItems
                     /\ alast.events[Len(alast.events)]
                            = <<"notify", "action", "end", MissingItems>>

\* Two user's context managers around the check.
C15_Witness ==
    /\ ItemMissing
    /\ alast.in.fault = "none"
    /\ Cardinality(UserCms(act, "action")) = 2
    /\ alast.exc = MissingItems
    /\ \A cm \in UserCms(act, "action") :
           IndexOf(alast.events, <<"exit", cm>>)
               > IndexOf(alast.events, <<"exit", Checks>>)

\* The user's context managers of a sequence.
RECURSIVE UserOnly(_)
UserOnly(cms) ==
    IF cms = <<>> THEN <<>>
    ELSE IF cms[1][1] = "cm"
         THEN <<cms[1]>> \o UserOnly(Tail(cms))
         ELSE UserOnly(Tail(cms))

\* The context managers of S with inner = inner, by increasing number of
\* registration.
RECURSIVE Registered(_, _)
Registered(S, inner) ==
    LET T == {cm \in S : cm[4] = inner} IN
    IF T = {} THEN <<>>
    ELSE LET first == CHOOSE cm \in T : \A other \in T : cm[3] <= other[3]
         IN <<first>> \o Registered(S \ {first}, inner)

\* The order in which a side enters its user's context managers: the outer
\* ones, the last registered first, then the inner ones, the first
\* registered first.
EntryOrder(side) ==
    Reverse(Registered(UserCms(act, side), FALSE))
        \o Registered(UserCms(act, side), TRUE)

\* The last operation ran a side with context managers that enter and exit
\* without an exception of their own.
Ran ==
    /\ alast.op \in {"do", "undo"}
    /\ alast.events # <<>>
    /\ alast.in.fault = "none"

\* C16: a do() or an undo() enters the user's context managers of its side
\* in the order: the outer ones from the last registered to the first
\* registered, then the inner ones (h3, h2, h1, hi for the outer h1, h2, h3
\* and the inner hi), then calls the function of the side, then exits them
\* in the reverse order; it runs no context manager of the other side.
C16_HookOrder ==
    Ran => /\ UserOnly(CmsOf(alast.events, "enter")) = EntryOrder(alast.side)
           /\ UserOnly(CmsOf(alast.events, "exit"))
                  = Reverse(EntryOrder(alast.side))
           /\ \A cm \in UserCms(act, alast.side) :
                  /\ IndexOf(alast.events, <<"enter", cm>>)
                         < IndexOf(alast.events, <<"call", alast.side>>)
                  /\ IndexOf(alast.events, <<"call", alast.side>>)
                         < IndexOf(alast.events, <<"exit", cm>>)
           /\ \A i \in 1..Len(alast.events) :
                  alast.events[i][1] \in {"enter", "exit"}
                      => alast.events[i][2][2] = alast.side

\* h1, h2, h3 registered as outer and then hi as inner.
C16_Witness ==
    /\ Ran
    /\ \E side \in Sides :
        /\ alast.side = side
        /\ UserOnly(CmsOf(alast.events, "enter"))
               = <<Cm(side, 3, FALSE), Cm(side, 2, FALSE),
                   Cm(side, 1, FALSE), Cm(side, 4, TRUE)>>
        /\ UserOnly(CmsOf(alast.events, "exit"))
               = <<Cm(side, 4, TRUE), Cm(side, 1, FALSE),
                   Cm(side, 2, FALSE), Cm(side, 3, FALSE)>>

\* C17: in every do() and undo(), the context managers that were entered are
\* exited once each, in the reverse of the order of their entry, whether
\* the function returns, the function raises, or the exit or the enter of
\* a context manager raises.
C17_EveryEnteredExits ==
    alast.op \in {"do", "undo"}
        => CmsOf(alast.events, "exit")
               = Reverse(CmsOf(alast.events, "enter"))

\* The exit of a context manager that is not the outermost raises.
C17_Witness ==
    /\ alast.op = "do"
    /\ alast.in.fault = "exit"
    /\ Len(CmsOf(alast.events, "enter")) >= 3
    /\ CmsOf(alast.events, "enter")[1] # alast.in.cm
    /\ alast.exc = ExitException

\* The indexes of the end events of a run.
EndEvents(events) ==
    {i \in 1..Len(events) :
         events[i][1] = "notify" /\ events[i][3] = "end"}

\* C21: every do() (and every undo() that is not the hidden one of a
\* UnitAction) emits a begin event before any context manager is entered and
\* then exactly one end event, after every context manager has exited; the
\* end event carries the exception that the call raises, and none when the
\* call returns.
C21_Stated ==
    (alast.op \in {"do", "undo"} /\ alast.events # <<>>)
        => /\ alast.events[1] = <<"notify", alast.side, "begin">>
           /\ EndEvents(alast.events) = {Len(alast.events)}
           /\ alast.events[Len(alast.events)]
                  = <<"notify", alast.side, "end", alast.exc>>

\* ------------------------------------------------------ the dicts' runs
\* The number of keys that the dicts hold together.
Items(ds) ==
    Cardinality({s \in Dicts \X Keys : ds[s[1]][s[2]] # Absent})

\* There is room for one more key, or the key is there already.
Room(d, k) == dicts[d][k] # Absent \/ Items(dicts) < MaxItems

\* What the history keeps for a written reference: the dict and the key
\* that the user named.
Reference(d, k) == <<"reference to", d, k>>

RInit ==
    /\ RIdle
    /\ SIdle
    /\ CIdle
    /\ IIdle
    /\ PIdle
    /\ TIdle
    /\ AIdle

\* d[k] = v, with a value that is not a reference.
RSetItem ==
    /\ \E d \in Dicts, k \in Keys, v \in Values :
           /\ Room(d, k)
           /\ dicts' = ReferencesDict_setitem(dicts, d, k, v)
           /\ written' = [written EXCEPT ![d][k] = v]
           /\ rlast' = IF dicts[d][k] \in Values \ {v}
                       THEN "overwrite" ELSE "write"
    /\ UNCHANGED <<pvars, tvars, avars, svars, cvars, ivars>>

\* d[k] = d2.ref_to(k2); d2 need not have the key k2 yet.
RSetReference ==
    /\ \E d \in Dicts, k \in Keys, d2 \in Dicts, k2 \in Keys :
           /\ Room(d, k)
           /\ dicts' = ReferencesDict_setitem(dicts, d, k,
                                              ref_to(dicts, d2, k2))
           /\ written' = [written EXCEPT ![d][k] = Reference(d2, k2)]
           /\ rlast' = "write"
    /\ UNCHANGED <<pvars, tvars, avars, svars, cvars, ivars>>

\* del d[k], which raises KeyError and changes nothing without the key.
RDelItem ==
    /\ \E d \in Dicts, k \in Keys :
           /\ dicts[d][k] # Absent
           /\ dicts' = ReferencesDict_delitem(dicts, d, k)
           /\ written' = [written EXCEPT ![d][k] = Absent]
           /\ rlast' = "write"
    /\ UNCHANGED <<pvars, tvars, avars, svars, cvars, ivars>>

RNext == RSetItem \/ RSetReference \/ RDelItem

SpecRefs == RInit /\ [][RNext]_vars

\* -------------------------------------------------------- dicts: claims
\* The key that the history reaches from the key k of d in n references, or
\* the last key on the way when there are fewer references.
RECURSIVE Referenced(_, _, _)
Referenced(d, k, n) ==
    IF n = 0 \/ written[d][k] \notin {Reference(e, j) : e \in Dicts, j \in Keys}
    THEN <<d, k>>
    ELSE Referenced(written[d][k][2], written[d][k][3], n - 1)

\* The key where the references written from the key k of d end, when they
\* do not loop.
EndOf(d, k) == Referenced(d, k, Cardinality(Dicts \X Keys))

\* The references written from the key k of d do not loop.
Ends(d, k) ==
    LET end == EndOf(d, k)
    IN  written[end[1]][end[2]] \in Values \cup {Absent}

\* What was written last at the end of the references from the key k of d.
LatestWritten(d, k) ==
    LET end == EndOf(d, k)
    IN  written[end[1]][end[2]]

\* C23: when d2[k2] holds a reference d1.ref_to(k1), whatever was written
\* since, a read of d2[k2] returns the value written last to d1[k1], through
\* the references that d1[k1] may itself hold, and it raises KeyError only
\* when the key that the references end on is absent (references that do not
\* loop).
C23_ReferenceReadsLatest ==
    \A d2 \in Dicts, k2 \in Keys, d1 \in Dicts, k1 \in Keys :
        (written[d2][k2] = Reference(d1, k1) /\ Ends(d1, k1))
            => /\ LatestWritten(d1, k1) \in Values
                   => ReferencesDict_getitem(dicts, d2, k2)
                          = LatestWritten(d1, k1)
               /\ ReferencesDict_getitem(dicts, d2, k2) = KeyError
                      <=> LatestWritten(d1, k1) = Absent

\* A value was just written over another one, at the end of references that
\* go through three dicts, and a key of the first dict reads the new value.
C23_Witness ==
    /\ rlast = "overwrite"
    /\ \E d3 \in Dicts, d2 \in Dicts, d1 \in Dicts,
          k3 \in Keys, k2 \in Keys, k1 \in Keys :
           /\ Cardinality({d1, d2, d3}) = 3
           /\ k2 # k1
           /\ written[d3][k3] = Reference(d2, k2)
           /\ written[d2][k2] = Reference(d1, k1)
           /\ written[d1][k1] \in Values
           /\ \A s \in (Dicts \X Keys) \ {<<d1, k1>>} :
                  written[s[1]][s[2]] \notin Values
           /\ ReferencesDict_getitem(dicts, d3, k3) = written[d1][k1]

\* --------------------------------------------- the shared objects' runs
\* The prepared copies of the template.
Copies == {"prepared", "prepared2"}

SInit ==
    /\ \E class \in {"StatefullAction", "UnitAction"} :
           /\ objs = StatefullAction_init(class).objs
           /\ cells = StatefullAction_init(class).cells
           /\ dicts = StatefullAction_init(class).dicts
    /\ slast = NoSOp
    /\ written = [d \in Dicts |-> ReferencesDict_init]
    /\ rlast = "none"
    /\ PIdle
    /\ TIdle
    /\ AIdle
    /\ CIdle
    /\ IIdle

\* The actions that are prepared.
PreparedObjs == {o \in DOMAIN objs : objs[o].state # "None"}

\* The context managers that the user added, on any action.
AddedCms ==
    UNION {Range(cells[c].action) \cup Range(cells[c].rollback) :
               c \in DOMAIN cells} \ {Checks, Enables}

\* The value that the user and the functions of the actions write, and the
\* value that simulate gets from a log.
Given == <<"value", "10">>

Logged == <<"value", "20">>

\* The kwargs of get_prepared_action: the item "a", which is a value or a
\* reference to an item of a prepared action.
Kwargs ==
    {[ReferencesDict_init EXCEPT !["a"] = v] :
         v \in {Given} \cup {ref_to(dicts, d, k) :
                                d \in States(Heap(objs, cells, dicts)),
                                k \in Keys}}

\* The after_state of simulate: values for some of the keys.
AfterStates == [Keys -> {Logged, Absent}]

\* The heap after a step.
HeapIs(h) ==
    /\ objs' = h.objs
    /\ cells' = h.cells
    /\ dicts' = h.dicts

\* prepared = action.get_prepared_action(**kwargs), on an action that is not
\* prepared (a prepared one raises "Action already prepared").
SGetPreparedAction ==
    /\ Cardinality(PreparedObjs) < Cardinality(Copies)
    /\ \E o \in DOMAIN objs \ PreparedObjs, kwargs \in Kwargs :
           /\ HeapIs(Heap_get_prepared_action(Heap(objs, cells, dicts), o,
                                              kwargs))
           /\ slast' = SOp("get_prepared_action", o, "action",
                           ReferencesDict_init, <<>>)
    /\ UNCHANGED <<pvars, tvars, avars, written, rlast, cvars, ivars>>

\* action.add_context_manager(side, cm, inner), with a new context manager,
\* on the template or on a prepared action.
SAddContextManager ==
    /\ Cardinality(AddedCms) < MaxAdded
    /\ \E o \in DOMAIN objs, side \in Sides, inner \in BOOLEAN :
           /\ inner => cells[objs[o].cms][side] # <<>>
           /\ HeapIs(Heap_add_context_manager(
                         Heap(objs, cells, dicts), o, side,
                         Cm(side, Cardinality(AddedCms) + 1, inner), inner))
           /\ slast' = SOp("add_context_manager", o, side,
                           ReferencesDict_init, <<>>)
    /\ UNCHANGED <<pvars, tvars, avars, written, rlast, cvars, ivars>>

\* action.state[k] = v, on a prepared action, as its functions do.
SSetItem ==
    /\ \E o \in PreparedObjs, k \in Keys :
           /\ dicts' = ReferencesDict_setitem(dicts, objs[o].state, k, Given)
           /\ slast' = SOp("setitem", o, "action", ReferencesDict_init,
                           <<>>)
    /\ UNCHANGED <<objs, cells>>
    /\ UNCHANGED <<pvars, tvars, avars, written, rlast, cvars, ivars>>

\* action.simulate(side, after_state), on a prepared action.
SSimulate ==
    /\ \E o \in PreparedObjs, side \in Sides, after_state \in AfterStates :
           /\ HeapIs(Heap_simulate(Heap(objs, cells, dicts), o,
                                   after_state))
           /\ slast' = SOp("simulate", o, side, after_state,
                           Simulate_events(side))
    /\ UNCHANGED <<pvars, tvars, avars, written, rlast, cvars, ivars>>

SNext == SGetPreparedAction \/ SAddContextManager \/ SSetItem \/ SSimulate

SpecState == SInit /\ [][SNext]_vars

\* ----------------------------------------------- shared objects: claims
\* The context managers of the action o.
HooksOf(cs, os, o) == cs[os[o].cms]

\* The step leaves the action o as it was: what it holds, its context
\* managers and the items of its state.
Untouched(o) ==
    /\ objs'[o] = objs[o]
    /\ HooksOf(cells', objs', o) = HooksOf(cells, objs, o)
    /\ objs[o].state # "None"
           => dicts'[objs[o].state] = dicts[objs[o].state]

\* C22: get_prepared_action leaves the template as it was, not prepared and
\* with the same context managers, and leaves every other action as it was;
\* the copy has a state and context managers that no other action holds; a
\* context manager added to an action, and an item written or simulated in
\* the state of an action, change nothing in the context managers and in
\* the items of another action.
C22_PreparedCopiesIndependent ==
    [][/\ slast'.op = "get_prepared_action"
           => /\ Len(objs') = Len(objs) + 1
              /\ objs'[slast'.obj].state = "None"
              /\ \A o \in DOMAIN objs :
                     /\ Untouched(o)
                     /\ objs'[Len(objs')].cms # objs'[o].cms
                     /\ objs'[Len(objs')].state # objs'[o].state
       /\ slast'.op \in {"add_context_manager", "setitem", "simulate"}
           => \A o \in DOMAIN objs \ {slast'.obj} : Untouched(o)
      ]_vars

\* Two prepared copies of a template: a context manager was just added to
\* one of the copies, which the other copy and the template do not have.
C22_Witness ==
    /\ slast.op = "add_context_manager"
    /\ slast.obj > 1
    /\ Cardinality(PreparedObjs) = 2
    /\ \E cm \in AddedCms :
           \A o \in DOMAIN objs :
               cm \in Range(HooksOf(cells, objs, o)[slast.side])
                   <=> o = slast.obj

\* What C24 says of a simulate of after_state on the action o.
SimulateMerged(o, after_state) ==
    LET d == objs[o].state
    IN  /\ slast'.events = <<<<"send_info", slast'.side, "simul">>>>
        /\ objs' = objs
        /\ cells' = cells
        /\ \A k \in Keys \ KeysOf(after_state) : dicts'[d][k] = dicts[d][k]
        /\ \A k \in KeysOf(after_state) :
               /\ ReferencesDict_getitem(dicts', d, k) = after_state[k]
               /\ \A o2 \in PreparedObjs \ {o}, k2 \in Keys :
                      dicts[objs[o2].state][k2] = RefValue(d, k)
                          => ReferencesDict_getitem(dicts', objs'[o2].state,
                                                    k2) = after_state[k]

\* C24: simulate on a prepared action calls no function and no context
\* manager and keeps the ReferencesDict of the action: the keys of
\* after_state read the simulated values, the other keys keep what they
\* held, and a key of the state of another action that holds a reference to
\* a key of after_state reads the simulated value.
C24_SimulateMergesInPlace ==
    [][slast'.op = "simulate"
           => SimulateMerged(slast'.obj, slast'.after)]_vars

\* A simulate has just set the item "a" of a state to 20 and not the item
\* "b", which holds 10, and the state of another action holds a reference
\* to the item that was set.
C24_Witness ==
    /\ slast.op = "simulate"
    /\ slast.obj \in PreparedObjs
    /\ dicts[objs[slast.obj].state] =
           [a |-> <<"value", "20">>, b |-> <<"value", "10">>]
    /\ \E o2 \in PreparedObjs \ {slast.obj} :
           /\ dicts[objs[o2].state]["a"] = RefValue(objs[slast.obj].state, "a")
           /\ ReferencesDict_getitem(dicts, objs[o2].state, "a")
                  = <<"value", "20">>

\* ------------------------------------------------ action: more claims
\* C25: once simulate("action") was called on a prepared UnitAction whose
\* do() was never called, undo() is Action.undo, as after a do() that
\* returned: it emits its events and, unless the enter of a context manager
\* raises, it calls the rollback function; simulate("rollback") leaves undo
\* hidden when nothing else was done, and the undo that follows does
\* nothing.
C25_SimulatedUndoRuns ==
    /\ (act.class = "UnitAction" /\ act.prepared /\ adone = "simulated")
           => ~act.undo_hidden
    /\ (UnitUndo /\ adone = "simulated")
           => /\ ~alast.hidden
              /\ alast = AOp("undo", "rollback", alast.in, act,
                             Action_run(act, "rollback", alast.in))
              /\ alast.in.fault # "enter"
                     => <<"call", "rollback">> \in Range(alast.events)
    /\ (act.class = "UnitAction" /\ act.prepared /\ adone = "nothing"
            /\ alast.op = "simulate" /\ alast.side = "rollback")
           => act.undo_hidden
    /\ (UnitUndo /\ adone = "nothing") => SilentNoOp

\* An undo that called the rollback function, after a simulate("action")
\* and no do().
C25_Witness ==
    /\ UnitUndo /\ adone = "simulated"
    /\ <<"call", "rollback">> \in Range(alast.events)

\* An undo that did nothing, after a simulate("rollback") and no do().
C25_WitnessRollbackSide ==
    /\ UnitUndo /\ adone = "nothing"
    /\ SilentNoOp

\* ------------------------------------------------ manager: more claims
\* The step is a call, by the user, of one of the operations ops.
Calls(ops) == nops' = nops + 1 /\ tlast'.op \in ops

\* The operation of the step raises TransactionException, invokes no method
\* of a handler and leaves the manager as it was.
Refuses ==
    /\ tlast'.exc.by = <<"TransactionException", Mutex>>
    /\ tlast'.calls = <<>>
    /\ trm' = trm

\* C26: execute(), rollback() and commit() on a manager that has not begun
\* raise TransactionException and invoke no method of a handler;
\* add_transaction_handler() and set_mutex_handler() in the body of a scope
\* raise TransactionException and leave the handlers and the mutex handler
\* as they were.
C26_GuardedByBegun ==
    [][/\ (Calls({"execute", "rollback", "commit"}) /\ ~trm.begun)
           => Refuses
       /\ (Calls({"add_transaction_handler", "set_mutex_handler"})
            /\ pc = "body")
           => Refuses
      ]_vars

\* execute() was just refused on a manager that has a handler and has not
\* begun.
C26_Witness ==
    /\ tlast.op = "execute" /\ ~tlast.begun
    /\ Len(trm.handlers) = 1
    /\ tlast.exc.by = <<"TransactionException", Mutex>>
    /\ tlast.calls = <<>>

\* The manager has left a scope and is in no scope.
Exited == pc = "outside" /\ trm.begun

\* C27 as stated: once a scope has exited, add_transaction_handler() and
\* set_mutex_handler() succeed, and execute(), rollback() and commit()
\* called outside of a scope raise TransactionException.
C27_Stated ==
    [][/\ (Calls({"add_transaction_handler", "set_mutex_handler"})
            /\ Exited)
           => tlast'.exc = NoExc
       /\ (Calls({"execute", "rollback", "commit"}) /\ Exited)
           => tlast'.exc.by = <<"TransactionException", Mutex>>
      ]_vars

\* The begin of a handler raised when the scope was entered.
BeginRaised == tlast.op = "begin" /\ tlast.e # NoExc

\* C28: when the begin of the mutex handler or of a handler raises, begin
\* invokes no other begin after it and the body does not run; then the
\* rollback of every handler, begun or not, is invoked, and the one of the
\* mutex handler; when no rollback raises, the scope raises the exception
\* of the begin.
C28_BeginFailureRollsBack ==
    BeginRaised =>
        LET begins == Of(tlast.calls, "begin")
            rollbacks == Of(tlast.calls, "rollback")
        IN  /\ pc = "outside"
            /\ tlast.calls = begins \o rollbacks
            /\ IsPrefix(HandlersOf(begins), <<Mutex>> \o AllHandlers(trm))
            /\ Raising(begins) = <<begins[Len(begins)]>>
            /\ tlast.e.by = <<"begin", begins[Len(begins)][2]>>
            /\ HandlersOf(rollbacks) = HandlersThenMutex
            /\ Raising(rollbacks) = <<>> => tlast.exc = tlast.e

\* The begin of the first of two handlers raised: the second one was not
\* begun and was rollbacked.
C28_Witness ==
    /\ BeginRaised
    /\ tlast.calls = <<TCall("begin", Mutex, "ok"),
                       TCall("begin", 1, "raise"),
                       TCall("rollback", 1, "ok"),
                       TCall("rollback", 2, "ok"),
                       TCall("rollback", Mutex, "ok")>>
    /\ tlast.exc = tlast.e

\* The exception of a commit leaves the body of the scope.
CommitLeaving == Leaving /\ tlast.e.by[1] = "commit"

\* What C30 says of the exit of the scope.
RolledBackAll ==
    /\ Of(tlast.calls, "rollback") = tlast.calls
    /\ HandlersOf(tlast.calls) = HandlersThenMutex
    /\ Raising(tlast.calls) = <<>> => tlast.exc = tlast.e

\* C30 as stated: when the exception of a commit leaves the body, the
\* rollback of every handler is invoked, then the one of the mutex handler,
\* and the scope raises the exception of the commit when no rollback
\* raises.
C30_Stated == CommitLeaving => RolledBackAll

\* C30, amended: the same, in a scope in which rollback() was not called
\* before.
C30_CommitFailureRollsBack ==
    (CommitLeaving /\ ~tlast.rolled) => RolledBackAll

\* The commit of the second of two handlers raised, after the commit of the
\* first one returned, and both were rollbacked.
C30_Witness ==
    /\ CommitLeaving /\ ~tlast.rolled
    /\ trm.handlers = <<FALSE, FALSE>>
    /\ tlast.e.by = <<"commit", 2>>
    /\ tlast.calls = <<TCall("rollback", 1, "ok"), TCall("rollback", 2, "ok"),
                       TCall("rollback", Mutex, "ok")>>
    /\ tlast.exc = tlast.e

\* ----------------------------------------------- pipeline: more claims
\* The log is the full one of the pipeline: the names of all its actions,
\* then the rollback names of all of them, last action first.
FullLog(e) ==
    /\ e.op = "simulate_until"
    /\ e.arg = LogOf(Len(actions_list), Len(actions_list))

\* C29 as stated: after simulate_until of the full log, the undo() that
\* follows invokes no undo and the do() that follows invokes no do.
C29_Stated ==
    (FullLog(prev) /\ last.op \in {"do", "undo"}) => last.calls = <<>>

\* C29, amended: simulate_until of the full log does not raise and leaves
\* the cursor at the start of the list, in the order of appending: the
\* undo() that follows invokes no undo, and the do() that follows invokes
\* the do of every action, from the first one, in order (up to the one that
\* raises, if one raises).
C29_FullLogRewinds ==
    /\ FullLog(last)
           => /\ last.exc = "none"
              /\ actions_pipeline.position = 0
              /\ actions_pipeline.list = actions_list
    /\ (FullLog(prev) /\ last.op = "undo")
           => last.calls = <<>> /\ last.exc = "none"
    /\ (FullLog(prev) /\ last.op = "do")
           => /\ IsPrefix(last.calls, DoCalls(0, Len(actions_list)))
              /\ last.exc = "none"
                     => last.calls = DoCalls(0, Len(actions_list))
              /\ actions_list # <<>> => last.calls # <<>>

\* The do() that follows the full log of three actions does the three
\* again.
C29_Witness ==
    /\ FullLog(prev)
    /\ last.op = "do" /\ last.exc = "none"
    /\ last.calls = <<Call("do", 1), Call("do", 2), Call("do", 3)>>

\* The undo() that follows the full log of three actions.
C29_WitnessUndo ==
    /\ FullLog(prev)
    /\ Len(actions_list) = 3
    /\ last.op = "undo" /\ last.calls = <<>>


\* The log starts with the rollback name of an action of the pipeline.
RollbackFirst(e) ==
    /\ e.op = "simulate_until"
    /\ e.arg # <<>>
    /\ \E a \in 1..Len(actions_list) : e.arg[1] = rollback_name(a)

\* C32 as stated: simulate_until of a log that starts with a rollback entry,
\* on a pipeline that is not empty, does not raise.
C32_Stated == RollbackFirst(last) => last.exc = "none"

\* C32: simulate_until of a log that starts with a rollback entry, on a
\* pipeline that is not empty, raises ActionException.
C32_RollbackFirstRaises == RollbackFirst(last) => last.exc = "ActionException"

\* The log is the rollback name of the last action, alone.
C32_Witness ==
    /\ RollbackFirst(last)
    /\ Len(actions_list) = 2
    /\ last.arg = <<rollback_name(2)>>
    /\ last.exc = "ActionException"

\* ------------------------------------------- the pipeline and its copy
\* others[1] is the _actions_pipeline of a pipeline that was just built,
\* others[2] the one of its copy, once it is made.
CInit ==
    /\ others = <<ReversibleList_init>>
    /\ PIdle
    /\ TIdle
    /\ AIdle
    /\ RIdle
    /\ SIdle
    /\ IIdle

\* ap.append(action) on the pipeline or on its copy, with a new action.
CAppend(i) ==
    /\ UNCHANGED <<pvars, tvars, avars, rvars, svars, ivars>>
    /\ Len(others[i].list) < MaxActions
    /\ others' = [others EXCEPT
                      ![i] = ActionsPipeline_append(@, Len(@.list) + 1)]

\* ap2 = copy(ap); a copy made before is dropped.
CCopy ==
    /\ UNCHANGED <<pvars, tvars, avars, rvars, svars, ivars>>
    /\ others' = <<others[1], ActionsPipeline_copy(others[1])>>

\* do() on the pipeline or on its copy; the do of action f raises (none
\* when f = 0).
CDo(i) ==
    /\ UNCHANGED <<pvars, tvars, avars, rvars, svars, ivars>>
    /\ \E f \in ActionIds \cup {0} :
           others' = [others EXCEPT ![i] = ActionsPipeline_do(@, {f}).rl]

\* undo() on the pipeline or on its copy; the undo of action f raises
\* (none when f = 0).
CUndo(i) ==
    /\ UNCHANGED <<pvars, tvars, avars, rvars, svars, ivars>>
    /\ \E f \in ActionIds \cup {0} :
           others' = [others EXCEPT ![i] = ActionsPipeline_undo(@, {f}).rl]

CNext ==
    \/ CCopy
    \/ \E i \in DOMAIN others : CAppend(i)
    \/ \E i \in DOMAIN others : CDo(i)
    \/ \E i \in DOMAIN others : CUndo(i)

SpecCopy == CInit /\ [][CNext]_vars

\* ------------------------------------------------------- copy: claims
\* C31: a copy of a pipeline of n actions taken when the cursor of the
\* original is at position p behaves like the original at p: a do() on the
\* copy in which nothing raises invokes do on exactly the actions after the
\* p-th, in the order of appending, an undo() on the copy instead invokes
\* undo on exactly the p-th, ..., the first; and a do() or an undo() on one
\* of the two pipelines leaves the cursor of the other one unchanged.
C31_Stated ==
    [][/\ CCopy
           => LET p == others[1].position
                  n == Len(others[1].list)
              IN /\ ActionsPipeline_do(others'[2], {}).calls = DoCalls(p, n)
                 /\ ActionsPipeline_undo(others'[2], {}).calls
                        = UndoCalls(p)
       /\ \A i \in DOMAIN others :
              (CDo(i) \/ CUndo(i))
                  => \A j \in DOMAIN others \ {i} : others'[j] = others[j]
    ]_vars

\* ------------------------------------------- action: hooks that catch
\* A context manager of the do() caught the exception of the function and
\* did not re-raise it.
Caught ==
    /\ alast.op = "do"
    /\ alast.in.fct = "raise" /\ alast.in.fault = "catch"
    /\ <<"call", "action">> \in Range(alast.events)
    /\ <<"exit", alast.in.cm>> \in Range(alast.events)

\* C33: when a context manager catches the exception that the function of
\* the action raised and does not re-raise it, do() returns to its caller
\* without raising.
C33_Stated == Caught => alast.exc = NoException

\* ------------------------------------------------- the list on its own
\* others[1] is a ReversibleList that was just built, continuous or not.
LInit ==
    /\ \E continuous \in BOOLEAN :
           others = <<[ReversibleList_init EXCEPT !.continuous = continuous]>>
    /\ PIdle
    /\ TIdle
    /\ AIdle
    /\ RIdle
    /\ SIdle
    /\ IIdle

\* r.append(elem), with a new element.
LAppend ==
    /\ UNCHANGED <<pvars, tvars, avars, rvars, svars, ivars>>
    /\ Len(others[1].list) < MaxActions
    /\ others' = <<ReversibleList_append(others[1], Len(others[1].list) + 1)>>

\* next(r), which returns an element or raises StopIteration.
LNext ==
    /\ UNCHANGED <<pvars, tvars, avars, rvars, svars, ivars>>
    /\ others' = <<ReversibleList_next(others[1]).rl>>

\* r.reverse()
LReverse ==
    /\ UNCHANGED <<pvars, tvars, avars, rvars, svars, ivars>>
    /\ others' = <<ReversibleList_reverse(others[1])>>

\* r = copy(r): the model goes on with the copy.  The position of a copy of
\* a copy of ... grows without limit; it is capped here.
LCopy ==
    /\ UNCHANGED <<pvars, tvars, avars, rvars, svars, ivars>>
    /\ others[1].position <= MaxActions
    /\ others' = <<ReversibleList_copy(others[1])>>

ListNext == LAppend \/ LNext \/ LReverse \/ LCopy

SpecList == LInit /\ [][ListNext]_vars

\* ------------------------------------------------------- list: claims
\* What the next calls of next(r) return, up to the k-th or to the first
\* one that raises StopIteration.
RECURSIVE Yields(_, _)
Yields(rl, k) ==
    IF k = 0 THEN <<>>
    ELSE LET n == ReversibleList_next(rl) IN
         IF n.stop THEN <<>> ELSE <<n.elem>> \o Yields(n.rl, k - 1)

\* C34: in every state of a ReversibleList reached through append, next,
\* reverse and copy, 0 <= position <= len(list) and the next calls of
\* next() return exactly the elements of the list from the index position
\* to the end (and then, unless the list is continuous, StopIteration).
C34_Stated ==
    LET rl == others[1]
        left == Len(rl.list) - rl.position
    IN /\ rl.position \in 0..Len(rl.list)
       /\ Yields(rl, IF rl.continuous THEN left ELSE Len(rl.list) + 1)
              = SliceFrom(rl.list, rl.position)

\* ------------------------------------------------ pipeline: last claims
\* The undo of action f raised in the pipeline undo() e.
UndoRaised(e, f) ==
    /\ e.op = "undo" /\ e.exc # "none"
    /\ e.calls[Len(e.calls)] = Call("undo", f)

\* C35 as stated, for every pipeline: when the undo of the f-th action
\* raises during a pipeline undo(), the cursor is left just before that
\* action (position f - 1): the undo() that follows invokes undo on the
\* f-1-th, ..., the first action in this order (up to one that raises) and
\* not on the f-th again, and a do() called then would invoke do on the
\* f-th, ..., the last action.
C35_Stated ==
    \A f \in ActionIds :
        /\ UndoRaised(last, f)
               => /\ actions_pipeline.position = f - 1
                  /\ ActionsPipeline_do(actions_pipeline, {}).calls
                         = DoCalls(f - 1, Len(actions_list))
        /\ (UndoRaised(prev, f) /\ last.op = "undo")
               => /\ IsPrefix(last.calls, UndoCalls(f - 1))
                  /\ last.exc = "none" => last.calls = UndoCalls(f - 1)

\* The do of action f raised in the pipeline do() e.
DoRaised(e, f) ==
    /\ e.op = "do" /\ e.exc # "none"
    /\ e.calls[Len(e.calls)] = Call("do", f)

\* C36 as stated, for every pipeline: when a pipeline do() raised in the
\* f-th action and do() is called again right after it, the second do()
\* invokes do on the actions after the f-th, in the order of appending (up
\* to one that raises), and on no other action.
C36_Stated ==
    \A f \in ActionIds :
        (DoRaised(prev, f) /\ last.op = "do")
            => /\ IsPrefix(last.calls, DoCalls(f, Len(actions_list)))
               /\ last.exc = "none"
                      => last.calls = DoCalls(f, Len(actions_list))

\* C37: whenever simulate_until raises ActionException, the list of the
\* pipeline is in the order of appending: an undo() called then invokes
\* undo on the actions before the cursor, the last one first, and a do()
\* called instead invokes do on the actions after the cursor, in the order
\* of appending.
C37_Stated ==
    (last.op = "simulate_until" /\ last.exc = "ActionException")
        => /\ actions_pipeline.list = actions_list
           /\ ActionsPipeline_undo(actions_pipeline, {}).calls
                  = UndoCalls(actions_pipeline.position)
           /\ ActionsPipeline_do(actions_pipeline, {}).calls
                  = DoCalls(actions_pipeline.position, Len(actions_list))

\* ------------------------------------------------- manager: last claims
\* commit() was called in a scope.
CommittingInScope == Committing /\ pc # "outside"

\* No commit of a handler is invoked after a rollback of a handler.
NoCommitAfterRollback(calls) ==
    \A i, j \in DOMAIN calls :
        (i < j /\ calls[i][1] = "rollback") => calls[j][1] # "commit"

\* C38 as stated: in one scope, once rollback was invoked on the handlers,
\* by rollback() or by a commit() that a prepare_commit refused, no commit
\* of a handler is invoked.
C38_Stated ==
    CommittingInScope
        => /\ NoCommitAfterRollback(tlast.calls)
           /\ tlast.rolled => Of(tlast.calls, "commit") = <<>>

\* C38, amended: a commit() that invokes rollback on the handlers, after a
\* prepare_commit that refused, invokes no commit of a handler afterwards;
\* but a commit() called in a scope in which rollback was invoked before is
\* not refused: when every prepare_commit returns true, it invokes the
\* commit of the handlers, as in any other scope.
C38_CommitAfterRollback ==
    CommittingInScope
        => /\ NoCommitAfterRollback(tlast.calls)
           /\ (tlast.rolled /\ Prepared)
                  => LET cs == Of(tlast.calls, "commit")
                         all == no_prepare_commit_trs(trm)
                                    \o prepare_commit_trs(trm) \o <<Mutex>>
                     IN /\ cs # <<>>
                        /\ IsPrefix(HandlersOf(cs), all)
                        /\ tlast.exc = NoExc => HandlersOf(cs) = all

\* rollback() and then commit(), in the scope of a manager of one handler.
C38_Witness ==
    /\ CommittingInScope
    /\ tlast.rolled
    /\ Len(trm.handlers) = 1
    /\ HandlersOf(Of(tlast.calls, "commit")) = <<1, Mutex>>
    /\ tlast.exc = NoExc

\* ------------------------------------------------- reading the state
\* prepared = action.get_prepared_action(), on a template that declares no
\* state item.
SGetPreparedActionNoItems ==
    /\ Cardinality(PreparedObjs) < Cardinality(Copies)
    /\ \E o \in DOMAIN objs \ PreparedObjs :
           /\ HeapIs(Heap_get_prepared_action(Heap(objs, cells, dicts), o,
                                              ReferencesDict_init))
           /\ slast' = SOp("get_prepared_action", o, "action",
                           ReferencesDict_init, <<>>)
    /\ UNCHANGED <<pvars, tvars, avars, written, rlast, cvars, ivars>>

\* del action.state[k], on a prepared action that has the item k.
SDelItem ==
    /\ \E o \in PreparedObjs, k \in Keys :
           /\ dicts[objs[o].state][k] # Absent
           /\ dicts' = ReferencesDict_delitem(dicts, objs[o].state, k)
           /\ slast' = SOp("delitem", o, "action", ReferencesDict_init,
                           <<>>)
    /\ UNCHANGED <<objs, cells>>
    /\ UNCHANGED <<pvars, tvars, avars, written, rlast, cvars, ivars>>

\* action.state, on the template or on a prepared action: what it returns
\* or raises.
SState ==
    /\ \E o \in DOMAIN objs :
           slast' = SOp("state", o, "action", ReferencesDict_init,
                        <<StatefullAction_state(Heap(objs, cells, dicts),
                                                o)>>)
    /\ UNCHANGED <<objs, cells, dicts>>
    /\ UNCHANGED <<pvars, tvars, avars, written, rlast, cvars, ivars>>

ReadNext == SGetPreparedActionNoItems \/ SSetItem \/ SDelItem \/ SState

SpecRead == SInit /\ [][ReadNext]_vars

\* C40: reading the state of a prepared action returns its ReferencesDict
\* and never raises ActionException, also when the action declares no state
\* item and the ReferencesDict is empty.
C40_Stated ==
    (slast.op = "state" /\ slast.obj \in PreparedObjs)
        => slast.events = << <<"state", objs[slast.obj].state>> >>

\* -------------------------------------------------- the info streamers
\* ap.append(action), with a new action.
IAppend ==
    /\ UNCHANGED <<pvars, tvars, avars, rvars, svars, cvars>>
    /\ Len(info_streamer.actions) < MaxActions
    /\ \E r \in {ActionsPipeline_append_info_streamer(info_streamer,
                                                      "InfoStreamer")} :
           /\ info_streamer' = r.is
           /\ ilast' = IOp("append", Len(r.is.actions), "InfoStreamer",
                           r.exc, info_streamer)

\* ap.set_info_streamer(streamer)
ISetInfoStreamer ==
    /\ UNCHANGED <<pvars, tvars, avars, rvars, svars, cvars>>
    /\ \E streamer \in InfoStreamers :
       \E r \in {ActionsPipeline_set_info_streamer(info_streamer,
                                                   streamer)} :
           /\ info_streamer' = r.is
           /\ ilast' = IOp("set_info_streamer", 0, streamer, r.exc,
                           info_streamer)

\* action.set_info_streamer(streamer), on an action of the pipeline.
ISetInfoStreamerOfAction ==
    /\ UNCHANGED <<pvars, tvars, avars, rvars, svars, cvars>>
    /\ \E i \in DOMAIN info_streamer.actions, streamer \in InfoStreamers :
       \E r \in {Action_set_info_streamer(info_streamer.actions[i],
                                          streamer)} :
           /\ info_streamer' = [info_streamer EXCEPT
                                    !.actions[i] = r.streamer]
           /\ ilast' = IOp("set_info_streamer", i, streamer, r.exc,
                           info_streamer)

StreamerNext == IAppend \/ ISetInfoStreamer \/ ISetInfoStreamerOfAction

SpecStreamer == PInit /\ [][StreamerNext]_vars

\* C39: set_info_streamer called with an object that has no send_info
\* method raises ActionException and leaves the info_streamer of the action
\* (of the pipeline and of every action of it, when called on a pipeline)
\* as it was.
C39_Stated ==
    (ilast.op = "set_info_streamer" /\ ~has_send_info(ilast.arg))
        => /\ ilast.exc = "ActionException"
           /\ info_streamer = ilast.before

====
